---- MODULE Spec2Model ----
(***************************************************************************)
(* World of Bits: the sparse world-state engine of the game listed in      *)
(* PLAN.md (the final iteration of src/main.ts): deterministic token       *)
(* generation, the override store of mementos, viewport reconciliation of  *)
(* cell handles, and the pickup / place / craft interaction engine.        *)
(*                                                                         *)
(* Representation.                                                         *)
(*   Token        null is NULL (0); { value: v } is the integer v.         *)
(*   Cell         the record [i, j].                                       *)
(*   CellKey      the string "i,j" is the pair <<i, j>> (the decimal       *)
(*                rendering of two integers is injective).  The other keys *)
(*                a record can put in the Map: a string of one character c *)
(*                is <<c>>, undefined is <<>> and null is <<"null">>.      *)
(*   CellMemento  the record [token]; the timestamp field is written from  *)
(*                Date.now() and never read by the program, it is left out.*)
(*   JSON         a value is tagged by its kind: [json |-> "null"], a      *)
(*                string with its characters [json |-> "string", value],   *)
(*                an entry [json |-> "array", key, memento]; a memento is  *)
(*                the record [token] itself.                               *)
(*   Map          modifiedCells is the function from keys to mementos,     *)
(*                modifiedKeys the keys in the Map's iteration order.      *)
(*   positions    latitude and longitude are counted in half cells, so     *)
(*                TILE_DEGREES is 2: 2k stands for the double              *)
(*                k * 1e-4, an edge of cell k, and 2k + 1 for the double   *)
(*                (k + 0.5) * 1e-4, its centre; latLngToCell divides the   *)
(*                doubles, as the program does.                            *)
(*   luck         values in [0,1) are integers in thousandths, 0..999.     *)
(*   URL          movementParam is the value of the URL's movement         *)
(*                parameter, "" when it has none.                          *)
(***************************************************************************)
EXTENDS Integers, FiniteSets, Sequences, TLC

(* ----------------------------- bounds ---------------------------------- *)

\* The player walks the street that runs north from the spawn cell, at most
\* MoveBound cells up it.
MoveBound == 1

\* Half of the map viewport's height and width, in half cells.
ViewHalf == 3

\* The row of cells, LuckRow cells north of the spawn cell, on which the hash
\* takes every value: luck is r on the r-th cell of the row.
LuckRow == 1000

\* Flash timers that may be pending at once.
MaxTimers == 1

\* At most this many save failures are reported to the user in a session.
MaxSaveFailures == 1

\* At most this many geolocation failures are reported to the user.
MaxGeoFailures == 1

\* A record written by hand has at most this many entries.
MaxEntries == 3

\* The cell indices mapped in double precision run from -CoordBound to
\* CoordBound.
CoordBound == 13

\* How far (in cells, to the north) the user may drag the map away.
PanFar == 14

\* The cells at most this many cells from the spawn cell and from cell
\* (0, 0) are mapped in double precision as well.
Window == 60

(* ------------------------ program constants ---------------------------- *)

NULL == 0

TILE_DEGREES == 2
INTERACT_RADIUS == 3
TARGET_VALUE == 1024
VIEWPORT_BUFFER == 2

TOKEN_SPAWN_THRESHOLD == 960
TOKEN_VALUE_16_THRESHOLD == 997
TOKEN_VALUE_8_THRESHOLD == 990
TOKEN_VALUE_4_THRESHOLD == 975


CELL_COLOR_WITH_TOKEN == "#2a9d8f"
CELL_COLOR_EMPTY == "#aaa"
CELL_COLOR_INVALID == "#e76f51"

(* ------------------------------ state ---------------------------------- *)

VARIABLES
  playerCell,     \* Cell: the player's cell
  inventory,      \* Token: the single inventory slot
  modifiedCells,  \* Map<CellKey, CellMemento>: the override store
  modifiedKeys,   \* modifiedCells.keys(): its keys in the Map's iteration
                  \* order, the order in which they were first set
  cellLayers,     \* Map<CellKey, handle>: the materialized rectangles
  mapCenter,      \* the Leaflet map's centre position [lat, lng]
  flashTimers,    \* pending flashCell timeouts, oldest first (cells)
  saveTimeout,    \* the debounce timer: [handle, timers, id], see
                  \* debouncedSave
  storage,        \* localStorage[SAVE_KEY]: {} or a set holding one record
  inventoryDisplay, \* the text of the inventory panel (the token shown)
  notifications,  \* the notification and victory boxes shown so far, in order
  touched,        \* history: keys of accepted pickups, places and crafts
  genesis,        \* history: the generator's output at session start
  call,           \* the function call under observation: [fn, arg, ret]
  currentMovementMode, \* "buttons" or "geolocation"
  geolocationStatus,   \* "disabled", "active" or "error"
  watchId,        \* geoController.watchId: NULL, or the watch (1)
  keyHandler,     \* buttonController: its buttons and key listener exist
  movementParam   \* urlParams.get("movement") of the page's URL

vars == <<playerCell, inventory, modifiedCells, modifiedKeys, cellLayers,
          mapCenter, flashTimers, saveTimeout, storage, inventoryDisplay,
          notifications, touched, genesis, call,
          currentMovementMode, geolocationStatus, watchId, keyHandler,
          movementParam>>

(* ------------------------ coordinates & tokens ------------------------- *)

Abs(x) == IF x < 0 THEN -x ELSE x

Max(a, b) == IF a >= b THEN a ELSE b

(* ------------------- coordinates in double precision ------------------- *)

\* The game counts positions in half tiles (see Degrees).  The program
\* computes them in IEEE 754 double precision, with TILE_DEGREES = 1e-4, and
\* this section models that arithmetic: a finite double is a sign, a
\* mantissa of 53 bits and an exponent, of value man * 2^exp, and products,
\* sums and quotients are rounded to the nearest double, ties to the even
\* mantissa.  A mantissa does not fit an integer of the model checker, so
\* natural numbers are kept as sequences of limbs of 15 bits, the least
\* significant first, without leading zero limbs.
Limb == 2^15

RECURSIVE Trim(_)
Trim(n) ==
  IF n # <<>> /\ n[Len(n)] = 0 THEN Trim(SubSeq(n, 1, Len(n) - 1)) ELSE n

RECURSIVE BigOf(_)
BigOf(k) == IF k = 0 THEN <<>> ELSE <<k % Limb>> \o BigOf(k \div Limb)

RECURSIVE IntOf(_)
IntOf(n) == IF n = <<>> THEN 0 ELSE n[1] + Limb * IntOf(Tail(n))

LimbAt(n, i) == IF i <= Len(n) THEN n[i] ELSE 0

RECURSIVE BigCmpFrom(_, _, _)
BigCmpFrom(a, b, i) ==
  IF i = 0 THEN 0
  ELSE IF LimbAt(a, i) > LimbAt(b, i) THEN 1
  ELSE IF LimbAt(a, i) < LimbAt(b, i) THEN -1
  ELSE BigCmpFrom(a, b, i - 1)

BigCmp(a, b) == BigCmpFrom(a, b, Max(Len(a), Len(b)))

RECURSIVE AddFrom(_, _, _, _)
AddFrom(a, b, i, carry) ==
  IF i > Max(Len(a), Len(b))
  THEN IF carry = 0 THEN <<>> ELSE <<carry>>
  ELSE LET sum == LimbAt(a, i) + LimbAt(b, i) + carry
       IN  <<sum % Limb>> \o AddFrom(a, b, i + 1, sum \div Limb)

BigAdd(a, b) == Trim(AddFrom(a, b, 1, 0))

RECURSIVE SubFrom(_, _, _, _)
SubFrom(a, b, i, borrow) ==
  IF i > Len(a)
  THEN <<>>
  ELSE LET d == LimbAt(a, i) - LimbAt(b, i) - borrow
       IN  <<d % Limb>> \o SubFrom(a, b, i + 1, IF d < 0 THEN 1 ELSE 0)

\* a - b, for a >= b.
BigSub(a, b) == Trim(SubFrom(a, b, 1, 0))

RECURSIVE MulSmallFrom(_, _, _, _)
MulSmallFrom(a, d, i, carry) ==
  IF i > Len(a)
  THEN IF carry = 0 THEN <<>> ELSE <<carry>>
  ELSE LET p == a[i] * d + carry
       IN  <<p % Limb>> \o MulSmallFrom(a, d, i + 1, p \div Limb)

\* a * d, for a limb d.
MulSmall(a, d) == Trim(MulSmallFrom(a, d, 1, 0))

RECURSIVE BigMulFrom(_, _, _)
BigMulFrom(a, b, i) ==
  IF i > Len(b)
  THEN <<>>
  ELSE BigAdd(MulSmall(a, b[i]), <<0>> \o BigMulFrom(a, b, i + 1))

BigMul(a, b) == Trim(BigMulFrom(a, b, 1))

RECURSIVE BitsOf(_)
BitsOf(k) == IF k = 0 THEN 0 ELSE 1 + BitsOf(k \div 2)

BitLen(n) == IF n = <<>> THEN 0 ELSE 15 * (Len(n) - 1) + BitsOf(n[Len(n)])

Bit(n, i) == (LimbAt(n, i \div 15 + 1) \div 2^(i % 15)) % 2

ShiftLeft(n, s) ==
  Trim(MulSmall([k \in 1..(s \div 15) |-> 0] \o n, 2^(s % 15)))

ShiftRight(n, s) ==
  LET drop == s \div 15
      r == s % 15
      m == IF drop >= Len(n) THEN <<>> ELSE SubSeq(n, drop + 1, Len(n))
  IN  Trim([i \in 1..Len(m) |->
              m[i] \div 2^r + (LimbAt(m, i + 1) % 2^r) * 2^(15 - r)])

LowBitsZero(n, s) == ShiftLeft(ShiftRight(n, s), s) = n

\* One step of the long division: the remainder takes the next bit of the
\* dividend and gives the divisor up if it can.
DivStep(d, bit, q, r) ==
  LET r2 == BigAdd(MulSmall(r, 2), BigOf(bit))
  IN  IF BigCmp(r2, d) >= 0
      THEN [q |-> BigAdd(MulSmall(q, 2), <<1>>), r |-> BigSub(r2, d)]
      ELSE [q |-> MulSmall(q, 2), r |-> r2]

\* The division steps for the bits `bits`..1 of one limb of the dividend.
RECURSIVE DivBits(_, _, _, _)
DivBits(d, limb, bits, qr) ==
  IF bits = 0
  THEN qr
  ELSE CHOOSE result \in
         {DivBits(d, limb, bits - 1, step) :
            step \in {DivStep(d, (limb \div 2^(bits - 1)) % 2, qr.q, qr.r)}} : TRUE

\* The division steps for the limbs i..1 of the dividend.
RECURSIVE DivFrom(_, _, _, _)
DivFrom(a, d, i, qr) ==
  IF i = 0
  THEN qr
  ELSE CHOOSE result \in
         {DivFrom(a, d, i - 1, step) : step \in {DivBits(d, a[i], 15, qr)}} : TRUE

\* The quotient and the remainder of a by d, bit by bit.
BigDivMod(a, d) == DivFrom(a, d, Len(a), [q |-> <<>>, r |-> <<>>])

Zero64 == [neg |-> FALSE, man |-> <<>>, exp |-> 0]

\* The double nearest to n * 2^e, or, when `sticky`, to a value strictly
\* between n * 2^e and (n + 1) * 2^e; ties go to the even mantissa.
Round53(neg, n, e, sticky) ==
  LET len == BitLen(n)
      s == len - 53
      q == ShiftRight(n, s)
      half == Bit(n, s - 1) = 1
      rest == sticky \/ ~LowBitsZero(n, s - 1)
      up == half /\ (rest \/ Bit(q, 0) = 1)
      m == IF up THEN BigAdd(q, <<1>>) ELSE q
  IN  IF n = <<>> THEN Zero64
      ELSE IF len <= 53
      THEN [neg |-> neg, man |-> ShiftLeft(n, 53 - len), exp |-> e - (53 - len)]
      ELSE IF BitLen(m) > 53
      THEN [neg |-> neg, man |-> ShiftRight(m, 1), exp |-> e + s + 1]
      ELSE [neg |-> neg, man |-> m, exp |-> e + s]

\* An integer as a double (exact below 2^53).
Double(k) == Round53(k < 0, BigOf(Abs(k)), 0, FALSE)

\* x * y.
Times(x, y) ==
  IF x.man = <<>> \/ y.man = <<>>
  THEN Zero64
  ELSE Round53(x.neg # y.neg, BigMul(x.man, y.man), x.exp + y.exp, FALSE)

\* x / y, for y not zero.
Over(x, y) ==
  IF x.man = <<>>
  THEN Zero64
  ELSE LET qr == BigDivMod(ShiftLeft(x.man, 55), y.man)
       IN  Round53(x.neg # y.neg, qr.q, x.exp - y.exp - 55, qr.r # <<>>)

\* x + y.
Plus(x, y) ==
  LET e == IF x.exp <= y.exp THEN x.exp ELSE y.exp
      a == ShiftLeft(x.man, x.exp - e)
      b == ShiftLeft(y.man, y.exp - e)
  IN  IF x.man = <<>> THEN y
      ELSE IF y.man = <<>> THEN x
      ELSE IF x.neg = y.neg THEN Round53(x.neg, BigAdd(a, b), e, FALSE)
      ELSE IF BigCmp(a, b) >= 0 THEN Round53(x.neg, BigSub(a, b), e, FALSE)
      ELSE Round53(y.neg, BigSub(b, a), e, FALSE)

\* Math.floor(x), as an integer.
Floor64(x) ==
  LET whole == IF x.exp >= 0
               THEN IntOf(ShiftLeft(x.man, x.exp))
               ELSE IntOf(ShiftRight(x.man, -x.exp))
      fraction == x.exp < 0 /\ ~LowBitsZero(x.man, -x.exp)
  IN  IF ~x.neg THEN whole
      ELSE IF fraction THEN -whole - 1
      ELSE -whole

\* TILE_DEGREES = 1e-4 as a double: 0x3F1A36E2EB1C432D, that is
\* 7378697629483821 * 2^-66.
TILE_DEGREES_64 == [neg |-> FALSE, man |-> <<17197, 22072, 23435, 209>>, exp |-> -66]

\* 0.5 as a double.
Half64 == [neg |-> FALSE, man |-> ShiftLeft(<<1>>, 52), exp |-> -53]

\* latLngToCell on doubles: Math.floor(lat / TILE_DEGREES), and the same for
\* lng.
latLngToCell64(lat, lng) ==
  [i |-> Floor64(Over(lat, TILE_DEGREES_64)),
   j |-> Floor64(Over(lng, TILE_DEGREES_64))]

\* cellToLatLng on doubles: (cell.i + 0.5) * TILE_DEGREES, and the same for
\* cell.j.
cellToLatLng64(cell) ==
  [lat |-> Times(Plus(Double(cell.i), Half64), TILE_DEGREES_64),
   lng |-> Times(Plus(Double(cell.j), Half64), TILE_DEGREES_64)]

\* getCellBounds: the rectangle of cell (i, j), from its south-west corner
\* (i * TILE_DEGREES, j * TILE_DEGREES) to the corner one tile north-east.
getCellBounds(i, j) ==
  LET south == Times(Double(i), TILE_DEGREES_64)
      west == Times(Double(j), TILE_DEGREES_64)
  IN  [sw |-> [lat |-> south, lng |-> west],
       ne |-> [lat |-> Plus(south, TILE_DEGREES_64),
               lng |-> Plus(west, TILE_DEGREES_64)]]

(* ------------------------- positions of the game ----------------------- *)

\* CLASSROOM_LATLNG = (36.997936938057016, -122.05703507501151), as doubles:
\* 5206996718990959 * 2^-47 and -8589000276277647 * 2^-46.
CLASSROOM_LATLNG ==
  [lat |-> [neg |-> FALSE, man |-> <<13935, 19344, 32497, 147>>, exp |-> -47],
   lng |-> [neg |-> TRUE, man |-> <<31119, 27874, 3737, 244>>, exp |-> -46]]

\* The spawn cell, latLngToCell(CLASSROOM_LATLNG.lat, CLASSROOM_LATLNG.lng):
\* Math.floor(36.997936938057016 / 1e-4) and
\* Math.floor(-122.05703507501151 / 1e-4).
Spawn == [i |-> 369979, j |-> -1220571]

\* The positions the game meets are the corners and the centres of cells,
\* and the model counts them in half tiles: position 2k is the double
\* k * TILE_DEGREES, the south or west edge of cell k as getCellBounds
\* computes it, and position 2k + 1 is the double (k + 0.5) * TILE_DEGREES,
\* the centre of cell k as cellToLatLng computes it.

\* The 53 bits of the significand of TILE_DEGREES: the 22 lowest and the 22
\* highest.
LowBits == TILE_DEGREES_64.man[1] + (TILE_DEGREES_64.man[2] % 2^7) * 2^15
HighBits == TILE_DEGREES_64.man[4] * 2^14 + TILE_DEGREES_64.man[3] \div 2

\* The least 22-bit multiplier whose product with the significand of
\* TILE_DEGREES has 75 bits rather than 74:
\* 2560000 * 7378697629483821 >= 2^74 > 2559999 * 7378697629483821.
Carry == 2560000

\* (a * b) % 2^n for a and b below 2^22 and n at most 22, by halves of 11
\* bits.
TimesMod(a, b, n) ==
  LET low == (a % 2^11) * (b % 2^11)
      mid == (a \div 2^11) * (b % 2^11) + (a % 2^11) * (b \div 2^11)
  IN  IF n > 11
      THEN ((mid % 2^(n - 11)) * 2^11 + low) % 2^n
      ELSE low % 2^n

\* Math.floor(p / TILE_DEGREES) of the double the position p stands for, in
\* double precision. The quotient of a centre lies half a cell from an
\* integer and its floor is the cell. The quotient of the edge of cell k is
\* k but for its two roundings: the product k * TILE_DEGREES drops the bits
\* `lost` of |k| times the significand, and the division rounds its quotient
\* to 53 bits in turn. The floor is k - 1 when the product was rounded
\* towards -infinity (down for a positive k, up in magnitude for a negative
\* one) by more than half a unit in the last place of the quotient, which
\* takes a product of one bit more than the significand and the index
\* together; it is k otherwise. This holds for the cells of the globe, fewer
\* than 2^22 on either side; latLngToCell64 carries the same division out
\* limb by limb.
FloorOver(p) ==
  LET k == p \div TILE_DEGREES
      a == IF k < 0 THEN -k ELSE k
      e == CHOOSE x \in 0..21 : 2^x <= a /\ a < 2^(x + 1)
      lost == TimesMod(a, LowBits % 2^(e + 1), e + 1)
      half == HighBits \div 2^(22 - e)
  IN  IF p % TILE_DEGREES # 0 \/ k = 0 \/ a * 2^(21 - e) < Carry THEN k
      ELSE IF k > 0
      THEN IF half < lost /\ lost < 2^e THEN k - 1 ELSE k
      ELSE IF 2^e < lost /\ lost < 2^(e + 1) - half THEN k - 1 ELSE k

latLngToCell(lat, lng) == [i |-> FloorOver(lat), j |-> FloorOver(lng)]

cellToLatLng(cell) ==
  [lat |-> cell.i * TILE_DEGREES + TILE_DEGREES \div 2,
   lng |-> cell.j * TILE_DEGREES + TILE_DEGREES \div 2]

cellKey(i, j) == <<i, j>>

\* The cell (di, dj) away from the spawn cell.

At(di, dj) == [i |-> Spawn.i + di, j |-> Spawn.j + dj]

\* The deterministic hash collaborator, luck([i, j, "token"].toString()):
\* a fixed function of the cell alone.  This stub puts a 2 on the spawn cell
\* and on its (3,3) diagonal, a 4 four cells north, an 8 and a 16 further
\* off, and nothing anywhere else near the spawn cell.  Far to the north, on
\* the row LuckRow, it takes every value from 0 to MaxLuck, one per cell.
MaxLuck == 999

luck(i, j) ==
  LET di == i - Spawn.i
      dj == j - Spawn.j
  IN  CASE di = 0 /\ dj = 0 -> 965
        [] di = LuckRow /\ dj \in 0..MaxLuck -> dj
        [] di = 3 /\ dj = 3 -> 975
        [] di = 4 /\ dj = 0 -> 980
        [] di = 2 /\ dj = -1 -> 995
        [] di = -1 /\ dj = 2 -> 998
        [] OTHER -> (di * di * 7 + dj * dj * 13 + di * dj * 5) % TOKEN_SPAWN_THRESHOLD

\* A generator whose thresholds are inclusive.
initialTokenForCell_InclusiveThresholds(i, j) ==
  LET r == luck(i, j)
  IN  IF r < TOKEN_SPAWN_THRESHOLD THEN NULL
      ELSE IF r >= TOKEN_VALUE_16_THRESHOLD THEN 16
      ELSE IF r >= TOKEN_VALUE_8_THRESHOLD THEN 8
      ELSE IF r >= TOKEN_VALUE_4_THRESHOLD THEN 4
      ELSE 2

\* A generator whose tiers start at 1.
initialTokenForCell_StartsAtOne(i, j) ==
  LET r == luck(i, j)
  IN  IF r < TOKEN_SPAWN_THRESHOLD THEN NULL
      ELSE IF r > TOKEN_VALUE_16_THRESHOLD THEN 8
      ELSE IF r > TOKEN_VALUE_8_THRESHOLD THEN 4
      ELSE IF r > TOKEN_VALUE_4_THRESHOLD THEN 2
      ELSE 1

initialTokenForCell(i, j) ==
  LET r == luck(i, j)
  IN  IF r < TOKEN_SPAWN_THRESHOLD THEN NULL
      ELSE IF r > TOKEN_VALUE_16_THRESHOLD THEN 16
      ELSE IF r > TOKEN_VALUE_8_THRESHOLD THEN 8
      ELSE IF r > TOKEN_VALUE_4_THRESHOLD THEN 4
      ELSE 2

\* A read that takes a memento without a token for no memento at all.
getCellToken_NullFallsThrough(store, i, j) ==
  LET key == cellKey(i, j)
  IN  IF key \in DOMAIN store /\ store[key].token # NULL
      THEN store[key].token
      ELSE initialTokenForCell(i, j)

getCellToken(store, i, j) ==
  LET key == cellKey(i, j)
  IN  IF key \in DOMAIN store
      THEN store[key].token
      ELSE initialTokenForCell(i, j)

\* A range test that leaves the boundary out.
isInRange_Strict(player, i, j) ==
  LET dx == Abs(i - player.i)
      dy == Abs(j - player.j)
  IN  Max(dx, dy) < INTERACT_RADIUS

isInRange(player, i, j) ==
  LET dx == Abs(i - player.i)
      dy == Abs(j - player.j)
  IN  Max(dx, dy) <= INTERACT_RADIUS

(* --------------------------- drawing ----------------------------------- *)

\* The grid is unbounded.  The model materializes the cells of World, a
\* finite part of it: the cells the user clicks and two cells that are only
\* looked at.  A handle depends on its own cell alone, so the handles of
\* World behave as they do among all the others.
World == {At(0, 0), At(0, 1), At(3, 3), At(4, 0), At(2, -1), At(-1, 2)}

WorldKeys == {cellKey(c.i, c.j) : c \in World}

getCellVisuals(token, inRange) ==
  IF token # NULL THEN CELL_COLOR_WITH_TOKEN ELSE CELL_COLOR_EMPTY

\* A materialized rectangle: its colour, the in-range flag its weight and
\* hover handlers were built with, and the token its tooltip shows.
createCellRectangle(cell, token, inRange) ==
  [color |-> getCellVisuals(token, inRange), inRange |-> inRange, token |-> token]

removeCellLayer(layers, key) ==
  [k \in DOMAIN layers \ {key} |-> layers[k]]

\* The rectangle drawOrUpdateCell builds for a cell.
cellRectangle(store, player, cell) ==
  LET token == getCellToken(store, cell.i, cell.j)
      inRange == isInRange(player, cell.i, cell.j)
  IN  createCellRectangle(cell, token, inRange)

\* A redraw that takes an existing handle away and draws nothing in its
\* place.
drawOrUpdateCell_RemovesExisting(layers, store, player, cell) ==
  LET key == cellKey(cell.i, cell.j)
      removed == removeCellLayer(layers, key)
      rect == cellRectangle(store, player, cell)
  IN  IF key \in DOMAIN layers
      THEN removed
      ELSE [k \in DOMAIN removed \cup {key} |-> IF k = key THEN rect ELSE removed[k]]

\* A redraw that leaves a handle that exists as it is.
drawOrUpdateCell_KeepsExisting(layers, store, player, cell) ==
  LET key == cellKey(cell.i, cell.j)
      rect == cellRectangle(store, player, cell)
  IN  IF key \in DOMAIN layers
      THEN layers
      ELSE [k \in DOMAIN layers \cup {key} |-> IF k = key THEN rect ELSE layers[k]]

drawOrUpdateCell(layers, store, player, cell) ==
  LET key == cellKey(cell.i, cell.j)
      removed == removeCellLayer(layers, key)
      rect == cellRectangle(store, player, cell)
  IN  [k \in DOMAIN removed \cup {key} |-> IF k = key THEN rect ELSE removed[k]]

computeVisibleKeys(minI, maxI, minJ, maxJ, buffer) ==
  {cellKey(i, j) : i \in (minI - buffer)..(maxI + buffer),
                   j \in (minJ - buffer)..(maxJ + buffer)}

\* A pruning that removes nothing.
pruneInvisibleCells_KeepsAll(layers, store, visibleKeys) ==
  [cellLayers |-> layers, modifiedCells |-> store]

\* The pruning of the farming iteration: a cell that scrolls out of sight
\* forgets its memento with its handle.
pruneInvisibleCells_Farming(layers, store, visibleKeys) ==
  [cellLayers |-> [k \in DOMAIN layers \cap visibleKeys |-> layers[k]],
   modifiedCells |->
     [k \in DOMAIN store \ (DOMAIN layers \ visibleKeys) |-> store[k]]]

\* pruneInvisibleCells works on the two global maps; it gives both back.
pruneInvisibleCells(layers, store, visibleKeys) ==
  [cellLayers |-> [k \in DOMAIN layers \cap visibleKeys |-> layers[k]],
   modifiedCells |-> store]

\* map.getBounds(): the viewport is the rectangle of half-size ViewHalf
\* around the map's centre; its sides lie on cell edges or on cell centres.
getBounds(center) ==
  [sw |-> [lat |-> center.lat - ViewHalf, lng |-> center.lng - ViewHalf],
   ne |-> [lat |-> center.lat + ViewHalf, lng |-> center.lng + ViewHalf]]

\* The double loop of drawVisibleGrid over the cells `keys` of the viewport.
\* drawOrUpdateCell touches the handle of its own cell and no other, so the
\* outcome of the loop is read off cell by cell.
drawCells(layers, store, player, keys) ==
  LET redrawn(k) ==
        drawOrUpdateCell(layers, store, player, [i |-> k[1], j |-> k[2]])
      kept == {k \in DOMAIN layers \cup keys :
                 k \in keys => k \in DOMAIN redrawn(k)}
  IN  [k \in kept |-> IF k \in keys THEN redrawn(k)[k] ELSE layers[k]]

drawVisibleGrid(layers, store, player, center) ==
  LET bounds == getBounds(center)
      swCell == latLngToCell(bounds.sw.lat, bounds.sw.lng)
      neCell == latLngToCell(bounds.ne.lat, bounds.ne.lng)
      minI == swCell.i
      maxI == neCell.i
      minJ == swCell.j
      maxJ == neCell.j
      visibleKeys == computeVisibleKeys(minI, maxI, minJ, maxJ, VIEWPORT_BUFFER)
      pruned == pruneInvisibleCells(layers, store, visibleKeys)
      drawn == {cellKey(i, j) : i \in minI..maxI, j \in minJ..maxJ} \cap WorldKeys
  IN  [cellLayers |->
         drawCells(pruned.cellLayers, pruned.modifiedCells, player, drawn),
       modifiedCells |-> pruned.modifiedCells]

(* ------------------------- persistence --------------------------------- *)

\* The debounce timer.  `handle` tells whether the variable saveTimeout
\* holds a timer (is not null), `timers` counts the save callbacks the
\* browser has scheduled and neither run nor cancelled, and `id` is the
\* timer id saveTimeout holds, 0 when it is null.
NoSave == [handle |-> FALSE, timers |-> 0, id |-> 0]

\* The first timer of a page is pending.
SaveScheduled == [handle |-> TRUE, timers |-> 1, id |-> 1]

\* The id setTimeout returns for the debounce timer: an id that is not the
\* id of the timer just cleared.  The program compares the id with null
\* and hands it to clearTimeout, nothing else, so two ids taken in turn
\* stand for the browser's ever new ones.
setTimeout(cleared) == IF cleared = 1 THEN 2 ELSE 1

\* A request that schedules a write without cancelling the pending one.
debouncedSave_NoCancel ==
  saveTimeout' = [handle |-> TRUE, timers |-> saveTimeout.timers + 1,
                  id |-> setTimeout(saveTimeout.id)]

\* debouncedSave: the timer saveTimeout holds, if any, is cleared, and a new
\* one is scheduled and kept in saveTimeout.
debouncedSave ==
  saveTimeout' =
    [handle |-> TRUE,
     timers |-> (IF saveTimeout.handle
                 THEN saveTimeout.timers - 1
                 ELSE saveTimeout.timers) + 1,
     id |-> setTimeout(saveTimeout.id)]

\* Map.set(key, memento) on the keys of a Map: a new key goes last, a key
\* the Map holds keeps its place.
keysAfterSet(keys, store, key) ==
  IF key \in DOMAIN store THEN keys ELSE Append(keys, key)

\* The keys left, in their order, when the Map has become `store` by
\* deletions (or by none).
keysLeft(keys, store) == SelectSeq(keys, LAMBDA k : k \in DOMAIN store)

\* An array of entries that leaves out the cells emptied by a pickup.
entries_SkipsEmpty(keys, store) ==
  LET order == SelectSeq(keys, LAMBDA k : store[k].token # NULL)
  IN  [x \in 1..Len(order) |->
         [json |-> "array", key |-> order[x], memento |-> store[order[x]]]]

\* undefined, as a key and as a value of the Map.
undefinedKey == <<>>

undefined == [json |-> "undefined"]

\* What JSON.stringify writes for a key and for a value of the Map: null
\* for undefined, and the value itself otherwise.
stringifyKey(key) == IF key = undefinedKey THEN <<"null">> ELSE key

stringify(value) ==
  IF "json" \in DOMAIN value /\ value.json = "undefined"
  THEN [json |-> "null"]
  ELSE value

\* Array.from(modifiedCells.entries()): one [key, memento] array per key
\* of the store, in the Map's iteration order, as JSON.stringify writes it.
entries(keys, store) ==
  [x \in 1..Len(keys) |->
     [json |-> "array",
      key |-> stringifyKey(keys[x]),
      memento |-> stringify(store[keys[x]])]]

\* The record saveGameState writes under SAVE_KEY, as the JSON value its
\* text parses to: objects, arrays, numbers and null, each tagged by kind.
GameState ==
  [json |-> "object",
   playerPosition |->
     [json |-> "object",
      lat |-> [json |-> "number", value |-> cellToLatLng(playerCell).lat],
      lng |-> [json |-> "number", value |-> cellToLatLng(playerCell).lng]],
   inventory |-> inventory,
   modifiedCells |-> [json |-> "array", items |-> entries(modifiedKeys, modifiedCells)]]

saveGameState == storage' = {GameState}

\* ([key, memento]) => ...: the destructuring of an entry that is
\* iterable.  An array gives its first two elements, a string its first two
\* characters, and what is missing is undefined; null, a number, a boolean
\* and an object are not iterable, and destructuring them throws.
iterable(item) == item.json \in {"array", "string"}

destructure(item) ==
  IF item.json = "array"
  THEN [key |-> item.key, memento |-> item.memento]
  ELSE [key |-> IF Len(item.value) >= 1
                THEN <<item.value[1]>>
                ELSE undefinedKey,
        memento |-> IF Len(item.value) >= 2
                    THEN [json |-> "string", value |-> <<item.value[2]>>]
                    ELSE undefined]

\* The keys of a Map cleared and then set from the entries items[n], n in
\* `done`, in turn: each key where it was first set.
keysOfEntries(items, done) ==
  LET first == {n \in done : \A m \in done : items[m].key = items[n].key => n <= m}
      nth(x) == CHOOSE n \in first : Cardinality({m \in first : m < n}) = x - 1
  IN  [x \in 1..Cardinality(first) |-> items[nth(x)].key]

\* A load that restores the player cell and the inventory as soon as the
\* position has passed its checks, before it looks at the cells.
loadGameState_RestoresBeforeChecks(saved, player, inv, store, keys) ==
  LET unchanged == [ret |-> FALSE, playerCell |-> player, inventory |-> inv,
                    modifiedCells |-> store, modifiedKeys |-> keys]
  IN  IF saved = {} THEN unchanged
      ELSE
        LET state == CHOOSE r \in saved : TRUE
        IN  IF state.json # "object" THEN unchanged
            ELSE IF \/ state.playerPosition.json # "object"
                    \/ state.playerPosition.lat.json # "number"
                    \/ state.playerPosition.lng.json # "number"
            THEN unchanged
            ELSE IF state.modifiedCells.json # "array"
            THEN [ret |-> FALSE,
                  playerCell |-> latLngToCell(state.playerPosition.lat.value,
                                              state.playerPosition.lng.value),
                  inventory |-> state.inventory,
                  modifiedCells |-> store, modifiedKeys |-> keys]
            ELSE
              LET entry == state.modifiedCells.items
                  bad == {n \in DOMAIN entry : ~iterable(entry[n])}
                  done == {n \in DOMAIN entry : \A b \in bad : n < b}
                  items == [n \in done |-> destructure(entry[n])]
              IN  [ret |-> bad = {},
                   playerCell |-> latLngToCell(state.playerPosition.lat.value,
                                               state.playerPosition.lng.value),
                   inventory |-> state.inventory,
                   modifiedKeys |-> keysOfEntries(items, done),
                   modifiedCells |->
                     [k \in {items[n].key : n \in done} |->
                        items[CHOOSE n \in done :
                                /\ items[n].key = k
                                /\ \A m \in done :
                                     items[m].key = k => m <= n].memento]]

\* A load that keeps the first entry of a key that is repeated.
loadGameState_FirstWins(saved, player, inv, store, keys) ==
  LET unchanged == [ret |-> FALSE, playerCell |-> player, inventory |-> inv,
                    modifiedCells |-> store, modifiedKeys |-> keys]
  IN  IF saved = {} THEN unchanged
      ELSE
        LET state == CHOOSE r \in saved : TRUE
        IN  IF state.json # "object" THEN unchanged
            ELSE IF \/ state.playerPosition.json # "object"
                    \/ state.playerPosition.lat.json # "number"
                    \/ state.playerPosition.lng.json # "number"
                    \/ state.modifiedCells.json # "array"
            THEN unchanged
            ELSE
              LET entry == state.modifiedCells.items
                  bad == {n \in DOMAIN entry : ~iterable(entry[n])}
                  done == {n \in DOMAIN entry : \A b \in bad : n < b}
                  items == [n \in done |-> destructure(entry[n])]
              IN  [ret |-> bad = {},
                   playerCell |-> latLngToCell(state.playerPosition.lat.value,
                                               state.playerPosition.lng.value),
                   inventory |-> state.inventory,
                   modifiedKeys |-> keysOfEntries(items, done),
                   modifiedCells |->
                     [k \in {items[n].key : n \in done} |->
                        items[CHOOSE n \in done :
                                /\ items[n].key = k
                                /\ \A m \in done :
                                     items[m].key = k => n <= m].memento]]

\* loadGameState on the text `saved` holds ({} when nothing is saved), in a
\* session whose player cell, inventory and store are `player`, `inv` and
\* `store`: what it returns and what it leaves in the three.  A text that
\* does not parse, or that parses to null, throws at once; a record without
\* a position object, with a latitude or longitude that is no number, or
\* without a cell array is refused; otherwise the player cell and the
\* inventory are assigned, the store is cleared and the entries are set one
\* by one, up to the first entry that is not iterable, whose destructuring
\* throws.  The catch returns false.
loadGameState(saved, player, inv, store, keys) ==
  LET unchanged == [ret |-> FALSE, playerCell |-> player, inventory |-> inv,
                    modifiedCells |-> store, modifiedKeys |-> keys]
  IN  IF saved = {} THEN unchanged
      ELSE
        LET state == CHOOSE r \in saved : TRUE
        IN  IF state.json # "object" THEN unchanged
            ELSE IF \/ state.playerPosition.json # "object"
                    \/ state.playerPosition.lat.json # "number"
                    \/ state.playerPosition.lng.json # "number"
                    \/ state.modifiedCells.json # "array"
            THEN unchanged
            ELSE
              LET entry == state.modifiedCells.items
                  bad == {n \in DOMAIN entry : ~iterable(entry[n])}
                  done == {n \in DOMAIN entry : \A b \in bad : n < b}
                  items == [n \in done |-> destructure(entry[n])]
              IN  [ret |-> bad = {},
                   playerCell |-> latLngToCell(state.playerPosition.lat.value,
                                               state.playerPosition.lng.value),
                   inventory |-> state.inventory,
                   modifiedKeys |-> keysOfEntries(items, done),
                   modifiedCells |->
                     [k \in {items[n].key : n \in done} |->
                        items[CHOOSE n \in done :
                                /\ items[n].key = k
                                /\ \A m \in done :
                                     items[m].key = k => m <= n].memento]]

(* -------------------------- interaction -------------------------------- *)

updateInventoryUI == inventoryDisplay' = inventory'

\* A change that records no memento for an emptied cell.
applyCellChange_SkipsNull(cell, token) ==
  LET key == cellKey(cell.i, cell.j)
  IN  /\ modifiedCells' =
           IF token = NULL
           THEN [k \in DOMAIN modifiedCells \ {key} |-> modifiedCells[k]]
           ELSE [k \in DOMAIN modifiedCells \cup {key} |->
                   IF k = key THEN [token |-> token] ELSE modifiedCells[k]]
      /\ modifiedKeys' =
           IF token = NULL
           THEN SelectSeq(modifiedKeys, LAMBDA k : k # key)
           ELSE keysAfterSet(modifiedKeys, modifiedCells, key)
      /\ updateInventoryUI
      /\ cellLayers' = drawOrUpdateCell(cellLayers, modifiedCells', playerCell, cell)
      /\ debouncedSave

\* A change that records the memento without the token it was given.
applyCellChange_DropsToken(cell, token) ==
  LET key == cellKey(cell.i, cell.j)
  IN  /\ modifiedCells' =
           [k \in DOMAIN modifiedCells \cup {key} |->
              IF k = key THEN [token |-> NULL] ELSE modifiedCells[k]]
      /\ modifiedKeys' = keysAfterSet(modifiedKeys, modifiedCells, key)
      /\ updateInventoryUI
      /\ cellLayers' = drawOrUpdateCell(cellLayers, modifiedCells', playerCell, cell)
      /\ debouncedSave

\* A change that is left unsaved: no write is requested.
applyCellChange_NoSave(cell, token) ==
  LET key == cellKey(cell.i, cell.j)
  IN  /\ modifiedCells' =
           [k \in DOMAIN modifiedCells \cup {key} |->
              IF k = key THEN [token |-> token] ELSE modifiedCells[k]]
      /\ modifiedKeys' = keysAfterSet(modifiedKeys, modifiedCells, key)
      /\ updateInventoryUI
      /\ cellLayers' = drawOrUpdateCell(cellLayers, modifiedCells', playerCell, cell)
      /\ UNCHANGED saveTimeout

applyCellChange(cell, token) ==
  LET key == cellKey(cell.i, cell.j)
  IN  /\ modifiedCells' =
           [k \in DOMAIN modifiedCells \cup {key} |->
              IF k = key THEN [token |-> token] ELSE modifiedCells[k]]
      /\ modifiedKeys' = keysAfterSet(modifiedKeys, modifiedCells, key)
      /\ updateInventoryUI
      /\ cellLayers' = drawOrUpdateCell(cellLayers, modifiedCells', playerCell, cell)
      /\ debouncedSave

\* flashCell: the rejection feedback.  Without a handle nothing happens;
\* with one, the handle turns CELL_COLOR_INVALID and a timer is started that
\* redraws the cell FLASH_DURATION_MS later.
flashCell(i, j) ==
  LET key == cellKey(i, j)
  IN  IF key \notin DOMAIN cellLayers
      THEN UNCHANGED <<cellLayers, flashTimers>>
      ELSE /\ cellLayers' = [cellLayers EXCEPT ![key].color = CELL_COLOR_INVALID]
           /\ flashTimers' = Append(flashTimers, [i |-> i, j |-> j])

\* showVictory and showNotification append a box to the page; the victory
\* box reads "Victory! You crafted TARGET_VALUE!".
showVictory == notifications' = Append(notifications, <<"Victory", TARGET_VALUE>>)

showNotification(text) == notifications' = Append(notifications, text)

\* A click whose craft leaves the held token in the inventory.
onCellClick_CraftKeepsInventory(i, j) ==
  IF ~isInRange(playerCell, i, j)
  THEN /\ flashCell(i, j)
       /\ UNCHANGED <<inventory, modifiedCells, modifiedKeys, inventoryDisplay,
                      saveTimeout, notifications>>
  ELSE
    LET cellToken == getCellToken(modifiedCells, i, j)
    IN  IF inventory = NULL /\ cellToken # NULL
        THEN /\ inventory' = cellToken
             /\ applyCellChange([i |-> i, j |-> j], NULL)
             /\ UNCHANGED <<flashTimers, notifications>>
        ELSE IF inventory # NULL /\ cellToken = NULL
        THEN /\ inventory' = NULL
             /\ applyCellChange([i |-> i, j |-> j], inventory)
             /\ UNCHANGED <<flashTimers, notifications>>
        ELSE IF inventory # NULL /\ cellToken # NULL /\ inventory = cellToken
        THEN LET newValue == inventory * 2
             IN  /\ inventory' = inventory
                 /\ applyCellChange([i |-> i, j |-> j], newValue)
                 /\ IF newValue >= TARGET_VALUE
                    THEN showVictory
                    ELSE showNotification(<<"Crafted", newValue>>)
                 /\ UNCHANGED flashTimers
        ELSE /\ flashCell(i, j)
             /\ UNCHANGED <<inventory, modifiedCells, modifiedKeys,
                            inventoryDisplay, saveTimeout, notifications>>

\* A click that crafts whatever two tokens meet.
onCellClick_CraftAnyPair(i, j) ==
  IF ~isInRange(playerCell, i, j)
  THEN /\ flashCell(i, j)
       /\ UNCHANGED <<inventory, modifiedCells, modifiedKeys, inventoryDisplay,
                      saveTimeout, notifications>>
  ELSE
    LET cellToken == getCellToken(modifiedCells, i, j)
    IN  IF inventory = NULL /\ cellToken # NULL
        THEN /\ inventory' = cellToken
             /\ applyCellChange([i |-> i, j |-> j], NULL)
             /\ UNCHANGED <<flashTimers, notifications>>
        ELSE IF inventory # NULL /\ cellToken = NULL
        THEN /\ inventory' = NULL
             /\ applyCellChange([i |-> i, j |-> j], inventory)
             /\ UNCHANGED <<flashTimers, notifications>>
        ELSE IF inventory # NULL /\ cellToken # NULL
        THEN LET newValue == inventory * 2
             IN  /\ inventory' = NULL
                 /\ applyCellChange([i |-> i, j |-> j], newValue)
                 /\ IF newValue >= TARGET_VALUE
                    THEN showVictory
                    ELSE showNotification(<<"Crafted", newValue>>)
                 /\ UNCHANGED flashTimers
        ELSE /\ flashCell(i, j)
             /\ UNCHANGED <<inventory, modifiedCells, modifiedKeys,
                            inventoryDisplay, saveTimeout, notifications>>

\* A click handler that ignores every click once a victory box is shown.
onCellClick_StopsAfterVictory(i, j) ==
  IF \E n \in DOMAIN notifications : notifications[n][1] = "Victory"
  THEN UNCHANGED <<inventory, modifiedCells, modifiedKeys, cellLayers,
                   flashTimers, saveTimeout, inventoryDisplay, notifications>>
  ELSE
    IF ~isInRange(playerCell, i, j)
    THEN /\ flashCell(i, j)
         /\ UNCHANGED <<inventory, modifiedCells, modifiedKeys,
                        inventoryDisplay, saveTimeout, notifications>>
    ELSE
      LET cellToken == getCellToken(modifiedCells, i, j)
      IN  IF inventory = NULL /\ cellToken # NULL
          THEN /\ inventory' = cellToken
               /\ applyCellChange([i |-> i, j |-> j], NULL)
               /\ UNCHANGED <<flashTimers, notifications>>
          ELSE IF inventory # NULL /\ cellToken = NULL
          THEN /\ inventory' = NULL
               /\ applyCellChange([i |-> i, j |-> j], inventory)
               /\ UNCHANGED <<flashTimers, notifications>>
          ELSE IF inventory # NULL /\ cellToken # NULL /\ inventory = cellToken
          THEN LET newValue == inventory * 2
               IN  /\ inventory' = NULL
                   /\ applyCellChange([i |-> i, j |-> j], newValue)
                   /\ IF newValue >= TARGET_VALUE
                      THEN showVictory
                      ELSE showNotification(<<"Crafted", newValue>>)
                   /\ UNCHANGED flashTimers
          ELSE /\ flashCell(i, j)
               /\ UNCHANGED <<inventory, modifiedCells, modifiedKeys,
                              inventoryDisplay, saveTimeout, notifications>>


\* A click whose craft tells victory only over the target.
onCellClick_VictoryOverTarget(i, j) ==
  IF ~isInRange(playerCell, i, j)
  THEN /\ flashCell(i, j)
       /\ UNCHANGED <<inventory, modifiedCells, modifiedKeys, inventoryDisplay,
                      saveTimeout, notifications>>
  ELSE
    LET cellToken == getCellToken(modifiedCells, i, j)
    IN  IF inventory = NULL /\ cellToken # NULL
        THEN /\ inventory' = cellToken
             /\ applyCellChange([i |-> i, j |-> j], NULL)
             /\ UNCHANGED <<flashTimers, notifications>>
        ELSE IF inventory # NULL /\ cellToken = NULL
        THEN /\ inventory' = NULL
             /\ applyCellChange([i |-> i, j |-> j], inventory)
             /\ UNCHANGED <<flashTimers, notifications>>
        ELSE IF inventory # NULL /\ cellToken # NULL /\ inventory = cellToken
        THEN LET newValue == inventory * 2
             IN  /\ inventory' = NULL
                 /\ applyCellChange([i |-> i, j |-> j], newValue)
                 /\ IF newValue > TARGET_VALUE
                    THEN showVictory
                    ELSE showNotification(<<"Crafted", newValue>>)
                 /\ UNCHANGED flashTimers
        ELSE /\ flashCell(i, j)
             /\ UNCHANGED <<inventory, modifiedCells, modifiedKeys,
                            inventoryDisplay, saveTimeout, notifications>>

onCellClick(i, j) ==
  IF ~isInRange(playerCell, i, j)
  THEN /\ flashCell(i, j)
       /\ UNCHANGED <<inventory, modifiedCells, modifiedKeys, inventoryDisplay,
                      saveTimeout, notifications>>
  ELSE
    LET cellToken == getCellToken(modifiedCells, i, j)
    IN  IF inventory = NULL /\ cellToken # NULL
        THEN /\ inventory' = cellToken
             /\ applyCellChange([i |-> i, j |-> j], NULL)
             /\ UNCHANGED <<flashTimers, notifications>>
        ELSE IF inventory # NULL /\ cellToken = NULL
        THEN /\ inventory' = NULL
             /\ applyCellChange([i |-> i, j |-> j], inventory)
             /\ UNCHANGED <<flashTimers, notifications>>
        ELSE IF inventory # NULL /\ cellToken # NULL /\ inventory = cellToken
        THEN LET newValue == inventory * 2
             IN  /\ inventory' = NULL
                 /\ applyCellChange([i |-> i, j |-> j], newValue)
                 /\ IF newValue >= TARGET_VALUE
                    THEN showVictory
                    ELSE showNotification(<<"Crafted", newValue>>)
                 /\ UNCHANGED flashTimers
        ELSE /\ flashCell(i, j)
             /\ UNCHANGED <<inventory, modifiedCells, modifiedKeys,
                            inventoryDisplay, saveTimeout, notifications>>

\* A move that takes the cell nearest to the position, rounding instead of
\* flooring.
movePlayerToLatLng_Rounds(lat, lng) ==
  /\ playerCell' = latLngToCell(lat + TILE_DEGREES \div 2,
                                lng + TILE_DEGREES \div 2)
  /\ mapCenter' = [lat |-> lat, lng |-> lng]
  /\ \E moveend \in {drawVisibleGrid(cellLayers, modifiedCells, playerCell',
                                      mapCenter')} :
       \E grid \in {drawVisibleGrid(moveend.cellLayers, moveend.modifiedCells,
                                    playerCell', mapCenter')} :
         /\ cellLayers' = grid.cellLayers
         /\ modifiedCells' = grid.modifiedCells
         /\ modifiedKeys' = keysLeft(modifiedKeys, grid.modifiedCells)
  /\ debouncedSave

\* map.panTo moves the map and fires moveend, whose handler runs
\* drawVisibleGrid; then drawVisibleGrid is called a second time on the same
\* viewport, store and player cell.
movePlayerToLatLng(lat, lng) ==
  /\ playerCell' = latLngToCell(lat, lng)
  /\ mapCenter' = [lat |-> lat, lng |-> lng]
  /\ \E moveend \in {drawVisibleGrid(cellLayers, modifiedCells, playerCell',
                                      mapCenter')} :
       \E grid \in {drawVisibleGrid(moveend.cellLayers, moveend.modifiedCells,
                                    playerCell', mapCenter')} :
         /\ cellLayers' = grid.cellLayers
         /\ modifiedCells' = grid.modifiedCells
         /\ modifiedKeys' = keysLeft(modifiedKeys, grid.modifiedCells)
  /\ debouncedSave

(* ----------------------------- events ---------------------------------- *)

\* The cells the user clicks, the moves the buttons offer, and the places
\* the user drags the map to.
ClickCells == {At(0, 0), At(3, 3), At(4, 0)}

Movements == {<<1, 0>>, <<-1, 0>>, <<0, 1>>, <<0, -1>>}

PanCenters ==
  {cellToLatLng(At(0, 0)), cellToLatLng(At(3, 1)), cellToLatLng(At(PanFar, 0))}

InPlayArea(cell) ==
  /\ cell.i - Spawn.i \in 0..MoveBound
  /\ cell.j = Spawn.j

\* The row of the interaction table a click on `cell` falls in, read off the
\* state before the click: the range gate first, then (inventory, target).
EffectiveToken(store, cell) ==
  IF <<cell.i, cell.j>> \in DOMAIN store
  THEN store[<<cell.i, cell.j>>].token
  ELSE genesis[<<cell.i, cell.j>>]

Chebyshev(a, b) == Max(Abs(a.i - b.i), Abs(a.j - b.j))

TableRow(cell) ==
  IF Chebyshev(cell, playerCell) > 3 THEN "outOfRange"
  ELSE IF inventory = NULL /\ EffectiveToken(modifiedCells, cell) # NULL THEN "pickup"
  ELSE IF inventory # NULL /\ EffectiveToken(modifiedCells, cell) = NULL THEN "place"
  ELSE IF inventory # NULL /\ EffectiveToken(modifiedCells, cell) = inventory THEN "craft"
  ELSE "invalid"

\* A click on the materialized handle of `cell` (at most MaxTimers flash
\* timers are left pending).
Click(cell) ==
  /\ cellKey(cell.i, cell.j) \in DOMAIN cellLayers
  /\ onCellClick(cell.i, cell.j)
  /\ Len(flashTimers') <= MaxTimers
  /\ touched' = IF TableRow(cell) \in {"pickup", "place", "craft"}
                THEN touched \cup {cellKey(cell.i, cell.j)}
                ELSE touched
  /\ UNCHANGED <<playerCell, mapCenter, storage, genesis, currentMovementMode,
                 geolocationStatus, watchId, keyHandler, movementParam>>

\* A movement button (or key): one cell north, south, east or west.  The
\* buttons and the key listener exist while the button controller is
\* enabled.
ButtonMove(di, dj) ==
  LET newCell == [i |-> playerCell.i + di, j |-> playerCell.j + dj]
      newLatLng == cellToLatLng(newCell)
  IN  /\ keyHandler
      /\ InPlayArea(newCell)
      /\ movePlayerToLatLng(newLatLng.lat, newLatLng.lng)
      /\ UNCHANGED <<inventory, flashTimers, storage, inventoryDisplay,
                     notifications, touched, genesis, currentMovementMode,
                     geolocationStatus, watchId, keyHandler, movementParam>>

\* Leaflet's moveend runs drawVisibleGrid: the user has dragged the map to
\* `center`, or the map has come to rest where it was.
MapMoveEnd(center) ==
  /\ mapCenter' = center
  /\ LET grid == drawVisibleGrid(cellLayers, modifiedCells, playerCell, center)
     IN  /\ cellLayers' = grid.cellLayers
         /\ modifiedCells' = grid.modifiedCells
         /\ modifiedKeys' = keysLeft(modifiedKeys, grid.modifiedCells)
  /\ UNCHANGED <<playerCell, inventory, flashTimers, saveTimeout, storage,
                 inventoryDisplay, notifications, touched, genesis,
                 currentMovementMode, geolocationStatus, watchId, keyHandler,
                 movementParam>>

\* The oldest flash timer fires and redraws its cell.
FlashTimer ==
  /\ flashTimers # <<>>
  /\ cellLayers' = drawOrUpdateCell(cellLayers, modifiedCells, playerCell,
                                    Head(flashTimers))
  /\ flashTimers' = Tail(flashTimers)
  /\ UNCHANGED <<playerCell, inventory, modifiedCells, modifiedKeys, mapCenter,
                 saveTimeout, storage, inventoryDisplay, notifications,
                 touched, genesis, currentMovementMode, geolocationStatus,
                 watchId, keyHandler, movementParam>>

\* A timer callback that writes the state and leaves saveTimeout as it is.
SaveTimer_KeepsHandle ==
  /\ saveTimeout.timers > 0
  /\ saveGameState
  /\ saveTimeout' = [saveTimeout EXCEPT !.timers = @ - 1]
  /\ UNCHANGED <<playerCell, inventory, modifiedCells, modifiedKeys,
                 cellLayers, mapCenter, flashTimers, inventoryDisplay,
                 notifications, touched, genesis, currentMovementMode,
                 geolocationStatus, watchId, keyHandler, movementParam>>

\* A debounce timer fires: the state is written and saveTimeout is set to
\* null.
SaveTimer ==
  /\ saveTimeout.timers > 0
  /\ saveGameState
  /\ saveTimeout' = [handle |-> FALSE, timers |-> saveTimeout.timers - 1,
                      id |-> 0]
  /\ UNCHANGED <<playerCell, inventory, modifiedCells, modifiedKeys,
                 cellLayers, mapCenter, flashTimers, inventoryDisplay,
                 notifications, touched, genesis, currentMovementMode,
                 geolocationStatus, watchId, keyHandler, movementParam>>

(* ------------------------- specification ------------------------------- *)

\* No call is under observation.
NoCall == [fn |-> "none", arg |-> <<>>, ret |-> <<>>]

\* urlParams.get("movement"): "geolocation", or "" for a URL without the
\* parameter (null in the program; like any other value, it selects the
\* buttons).
MovementParams == {"", "geolocation"}

\* The page opened with nothing saved, at a URL whose movement parameter is
\* `param`, in a browser that has navigator.geolocation (supported) or lacks
\* it: the player on the spawn cell, the map centred on it and drawn,
\* nothing held, nothing modified, and the controller the parameter names
\* enabled.
Opened(param, supported) ==
  /\ playerCell = Spawn
  /\ inventory = NULL
  /\ modifiedCells = <<>>
  /\ modifiedKeys = <<>>
  /\ mapCenter = cellToLatLng(Spawn)
  /\ cellLayers =
       drawVisibleGrid(<<>>, <<>>, Spawn, cellToLatLng(Spawn)).cellLayers
  /\ flashTimers = <<>>
  /\ saveTimeout = NoSave
  /\ storage = {}
  /\ inventoryDisplay = NULL
  /\ touched = {}
  /\ genesis = [k \in WorldKeys |-> initialTokenForCell(k[1], k[2])]
  /\ movementParam = param
  /\ IF param = "geolocation"
     THEN /\ currentMovementMode = "geolocation"
          /\ keyHandler = FALSE
          /\ IF supported
             THEN /\ watchId = 1
                  /\ geolocationStatus = "disabled"
                  /\ notifications = <<>>
             ELSE /\ watchId = NULL
                  /\ geolocationStatus = "error"
                  /\ notifications =
                       <<<<"Geolocation not supported by browser">>>>
     ELSE /\ currentMovementMode = "buttons"
          /\ keyHandler = TRUE
          /\ watchId = NULL
          /\ geolocationStatus = "disabled"
          /\ notifications = <<>>

\* A fresh session at the URL without a movement parameter: the buttons
\* are enabled.
FreshSession == Opened("", TRUE)

Init ==
  /\ FreshSession
  /\ call = NoCall

\* The play of a session: clicks, moves, map drags and flash timers.  The
\* write to storage is read by nothing in the session and is left to the
\* specification of persistence.
Next ==
  \/ \E cell \in ClickCells : Click(cell) /\ UNCHANGED call
  \/ \E m \in Movements : ButtonMove(m[1], m[2]) /\ UNCHANGED call
  \/ \E center \in PanCenters : MapMoveEnd(center) /\ UNCHANGED call
  \/ FlashTimer /\ UNCHANGED call

Spec == Init /\ [][Next]_vars

(* --------------------------- properties -------------------------------- *)

\* The cells the player can stand on, and the colours a handle can take.
PlayCells == {At(di, 0) : di \in 0..MoveBound}

Colours == {CELL_COLOR_WITH_TOKEN, CELL_COLOR_EMPTY, CELL_COLOR_INVALID}

KeyOf(cell) == <<cell.i, cell.j>>

\* C1 (craft): when the target cell is in range, the inventory holds a token
\* of value v and the cell's effective token has value v, a click leaves the
\* cell's effective token at 2v and the inventory empty.
C1_Craft ==
  [][\A c \in ClickCells :
       (Click(c) /\ TableRow(c) = "craft")
         => /\ EffectiveToken(modifiedCells', c) = 2 * inventory
            /\ inventory' = NULL]_vars

\* A craft of two 4s has happened: an 8 lies on a cell, nothing is held, and
\* the last box shown announces it.
C1_Witness ==
  /\ inventory = NULL
  /\ notifications # <<>>
  /\ notifications[Len(notifications)] = <<"Crafted", 8>>
  /\ \E c \in ClickCells : EffectiveToken(modifiedCells, c) = 8

\* C2 (pickup): when the inventory is empty and the in-range target cell has
\* a token of value v, a click leaves v in the inventory and the cell's
\* effective token absent, also on a cell where the generator alone yields a
\* token.
C2_Pickup ==
  [][\A c \in ClickCells :
       (Click(c) /\ TableRow(c) = "pickup")
         => /\ inventory' = EffectiveToken(modifiedCells, c)
            /\ EffectiveToken(modifiedCells', c) = NULL
            /\ getCellToken(modifiedCells', c.i, c.j) = NULL]_vars

\* A token is held and a cell the generator fills has a memento without a
\* token: only a pickup writes one.
C2_Witness ==
  /\ inventory # NULL
  /\ \E c \in ClickCells :
       /\ initialTokenForCell(c.i, c.j) # NULL
       /\ KeyOf(c) \in DOMAIN modifiedCells
       /\ modifiedCells[KeyOf(c)].token = NULL

\* C3 (place): when the in-range target cell's effective token is absent and
\* the inventory holds a token of value v, a click leaves the cell's
\* effective token at v and the inventory empty.
C3_Place ==
  [][\A c \in ClickCells :
       (Click(c) /\ TableRow(c) = "place")
         => /\ EffectiveToken(modifiedCells', c) = inventory
            /\ inventory' = NULL]_vars

\* Nothing has been crafted, nothing is held, and the store has a memento
\* of a token: the token was placed on an emptied cell.
C3_Witness ==
  /\ inventory = NULL
  /\ notifications = <<>>
  /\ \E c \in ClickCells :
       /\ KeyOf(c) \in DOMAIN modifiedCells
       /\ modifiedCells[KeyOf(c)].token # NULL

\* C4 (invalid combination): in range, a click with a held token of value v
\* on a cell whose token has a value w # v, or with nothing held on an empty
\* cell, changes neither the inventory, nor the store, nor the player cell.
C4_InvalidIsNoOp ==
  [][\A c \in ClickCells :
       (Click(c) /\ TableRow(c) = "invalid")
         => UNCHANGED <<inventory, modifiedCells, modifiedKeys, playerCell>>]_vars

\* A cell that is in range of every cell the player stands on shows the
\* rejection colour, and the token held differs from the token on it.
C4_Witness ==
  \E c \in ClickCells :
    /\ \A p \in PlayCells : Chebyshev(c, p) <= 3
    /\ KeyOf(c) \in DOMAIN cellLayers
    /\ cellLayers[KeyOf(c)].color = CELL_COLOR_INVALID
    /\ TableRow(c) = "invalid"
    /\ inventory # NULL

\* What the interaction table prescribes for a click on `cell` that has
\* passed the range gate.
TableOutcome(cell) ==
  CASE TableRow(cell) = "pickup" ->
         /\ inventory' = EffectiveToken(modifiedCells, cell)
         /\ EffectiveToken(modifiedCells', cell) = NULL
    [] TableRow(cell) = "place" ->
         /\ EffectiveToken(modifiedCells', cell) = inventory
         /\ inventory' = NULL
    [] TableRow(cell) = "craft" ->
         /\ EffectiveToken(modifiedCells', cell) = 2 * inventory
         /\ inventory' = NULL
    [] OTHER -> UNCHANGED <<inventory, modifiedCells, modifiedKeys>>

\* C5 (range gate): a click on a cell at Chebyshev distance more than 3 from
\* the player cell changes neither the inventory nor the store; a click on a
\* cell at distance exactly 3, the diagonal (3,3) included, passes the gate
\* and is handled by the interaction table.
C5_RangeGate ==
  [][\A c \in ClickCells :
       Click(c)
         => /\ Chebyshev(c, playerCell) > 3
                 => UNCHANGED <<inventory, modifiedCells, modifiedKeys>>
            /\ Chebyshev(c, playerCell) = 3 => TableOutcome(c)]_vars

\* The (3,3) diagonal of the spawn cell is about to be picked up from the
\* spawn cell, and a cell that is never nearer than 3 to the player has been
\* changed by an accepted click, is now out of range and shows the rejection
\* colour.
C5_Witness ==
  /\ playerCell = Spawn
  /\ ENABLED (Click(At(3, 3)) /\ inventory' # NULL /\ inventory = NULL)
  /\ \E c \in ClickCells :
       /\ \A p \in PlayCells : Chebyshev(c, p) >= 3
       /\ KeyOf(c) \in touched
       /\ Chebyshev(c, playerCell) > 3
       /\ KeyOf(c) \in DOMAIN cellLayers
       /\ cellLayers[KeyOf(c)].color = CELL_COLOR_INVALID

\* The feedback a click on `cell` gives: the colour its handle takes, whether
\* a flash timer is started, whether a box is shown, whether the inventory
\* panel is rewritten.
Signal(cell) ==
  [colour |-> {col \in Colours :
                 ENABLED (Click(cell) /\ cellLayers'[KeyOf(cell)].color = col)},
   timer |-> ENABLED (Click(cell) /\ Len(flashTimers') > Len(flashTimers)),
   box |-> ENABLED (Click(cell) /\ notifications' # notifications),
   panel |-> ENABLED (Click(cell) /\ inventoryDisplay' # inventoryDisplay)]

\* C6 (distinct rejection signals): the rejection of an out-of-range click
\* and the rejection of an in-range click with an invalid combination give
\* the user different signals.
C6_DistinctSignals ==
  \A c1, c2 \in ClickCells :
    (/\ TableRow(c1) = "outOfRange"
     /\ TableRow(c2) = "invalid"
     /\ ENABLED Click(c1)
     /\ ENABLED Click(c2))
      => Signal(c1) # Signal(c2)

\* The steps that run the viewport reconciliation: a drag of the map, which
\* moves the map, a move of the player, which moves the player, and a
\* moveend that leaves the map where it was and redraws a flashing handle
\* (no click and no timer changes a handle without changing the inventory
\* or the pending timers).
Reconcile ==
  \/ mapCenter' # mapCenter
  \/ playerCell' # playerCell
  \/ (cellLayers' # cellLayers /\ flashTimers' = flashTimers
                               /\ inventory' = inventory)

\* C7 (reconciliation leaves the store alone): drawVisibleGrid never changes
\* the store, and a modified cell whose handle was pruned comes back showing
\* its memento's token.
C7_ReconcileKeepsStore ==
  [][Reconcile
       => /\ modifiedCells' = modifiedCells
          /\ \A k \in DOMAIN modifiedCells :
               (k \notin DOMAIN cellLayers /\ k \in DOMAIN cellLayers')
                 => cellLayers'[k].token = modifiedCells[k].token]_vars

\* A cell whose memento differs from the generator's output has lost its
\* handle, and a drag of the map brings it back with the memento's token.
C7_Witness ==
  \E k \in DOMAIN modifiedCells :
    /\ k \notin DOMAIN cellLayers
    /\ modifiedCells[k].token # genesis[k]
    /\ ENABLED (/\ \E center \in PanCenters : MapMoveEnd(center)
                /\ k \in DOMAIN cellLayers'
                /\ cellLayers'[k].token = modifiedCells[k].token)

\* C8 (flyweight store): the keys of the store are exactly the cells of the
\* accepted pickups, places and crafts so far; rejected clicks, moves and
\* reconciliations add none, and none is ever removed.
C8_StoreIsTouchedCells == DOMAIN modifiedCells = touched

\* Three cells have been changed, the player has walked off the spawn cell
\* and a drag of the map has pruned the handles of all three.
C8_Witness ==
  /\ Cardinality(touched) >= 3
  /\ touched \cap DOMAIN cellLayers = {}
  /\ playerCell # Spawn

\* C9 (read precedence): getCellToken returns the memento's token when the
\* store has an entry for the cell, absent included even where the generator
\* yields a token, and the generator's output exactly when there is no entry.
C9_ReadPrecedence ==
  \A c \in World :
    getCellToken(modifiedCells, c.i, c.j) =
      IF KeyOf(c) \in DOMAIN modifiedCells
      THEN modifiedCells[KeyOf(c)].token
      ELSE initialTokenForCell(c.i, c.j)

\* One cell the generator fills has a memento without a token and reads as
\* empty, while another cell without a memento reads as the generator's
\* token.
C9_Witness ==
  /\ \E c \in World :
       /\ KeyOf(c) \in DOMAIN modifiedCells
       /\ modifiedCells[KeyOf(c)].token = NULL
       /\ initialTokenForCell(c.i, c.j) # NULL
       /\ getCellToken(modifiedCells, c.i, c.j) = NULL
  /\ \E c \in World :
       /\ KeyOf(c) \notin DOMAIN modifiedCells
       /\ getCellToken(modifiedCells, c.i, c.j) # NULL

(* ------------------------ the generator alone -------------------------- *)

\* The cells of the row on which luck takes every value.
LuckCells == {At(LuckRow, r) : r \in 0..MaxLuck}

\* A session at its start, about to ask the generator for one cell of the
\* row.
InitGenerator ==
  /\ FreshSession
  /\ \E cell \in LuckCells :
       call = [fn |-> "initialTokenForCell", arg |-> cell, ret |-> <<>>]

\* The call returns.
Generate ==
  /\ call.fn = "initialTokenForCell"
  /\ call.ret = <<>>
  /\ call' = [call EXCEPT !.ret = <<initialTokenForCell(call.arg.i, call.arg.j)>>]
  /\ UNCHANGED <<playerCell, inventory, modifiedCells, modifiedKeys,
                 cellLayers, mapCenter, flashTimers, saveTimeout, storage,
                 inventoryDisplay, notifications, touched, genesis,
                 currentMovementMode, geolocationStatus, watchId, keyHandler,
                 movementParam>>

NextGenerator == Generate

SpecGenerator == InitGenerator /\ [][NextGenerator]_vars

\* The token the policy of the specification gives for a hash value r in
\* thousandths; at r = 960 the policy is silent.
PolicyTokens(r) ==
  IF r < 960 THEN {NULL}
  ELSE IF r > 997 THEN {16}
  ELSE IF r > 990 THEN {8}
  ELSE IF r > 975 THEN {4}
  ELSE IF r > 960 THEN {2}
  ELSE {NULL, 2, 4, 8, 16}

\* C11 (generator policy): for every hash value r in thousandths the
\* generator yields no token when r < 960, 16 when r > 997, 8 when
\* 990 < r <= 997, 4 when 975 < r <= 990 and 2 when 960 < r <= 975; it never
\* yields anything but no token, 2, 4, 8 or 16.
C11_GeneratorPolicy ==
  (call.fn = "initialTokenForCell" /\ call.ret # <<>>)
    => /\ call.ret[1] \in PolicyTokens(luck(call.arg.i, call.arg.j))
       /\ call.ret[1] \in {NULL, 2, 4, 8, 16}

\* The generator has answered for the hash value 997, the upper edge of the
\* band of 8.
C11_Witness ==
  /\ call.fn = "initialTokenForCell"
  /\ call.ret # <<>>
  /\ luck(call.arg.i, call.arg.j) = 997
  /\ call.ret[1] = 8

(* --------------------- reconciliation properties ----------------------- *)

\* The visible set of the specification for a map centred on `center`: the
\* cells of the viewport rectangle and of the margin of 2 around it.
InVisibleSet(k, center) ==
  LET sw == latLngToCell(center.lat - ViewHalf, center.lng - ViewHalf)
      ne == latLngToCell(center.lat + ViewHalf, center.lng + ViewHalf)
  IN  /\ sw.i - 2 <= k[1] /\ k[1] <= ne.i + 2
      /\ sw.j - 2 <= k[2] /\ k[2] <= ne.j + 2

\* What the handles show: per cell key, the token and the in-range flag.
Shown(layers) ==
  [k \in DOMAIN layers |->
     [token |-> layers[k].token, inRange |-> layers[k].inRange]]

\* C12 (reconcile materializes the visible set): after a reconciliation
\* every cell of the visible set, the margin ring included, has a handle that
\* shows the cell's effective token and whether the cell is in range of the
\* player cell.
C12_VisibleSetMaterialized ==
  [][Reconcile
       => \A k \in {w \in WorldKeys : InVisibleSet(w, mapCenter')} :
            /\ k \in DOMAIN cellLayers'
            /\ cellLayers'[k].token =
                 EffectiveToken(modifiedCells', [i |-> k[1], j |-> k[2]])
            /\ cellLayers'[k].inRange =
                 (Chebyshev([i |-> k[1], j |-> k[2]], playerCell') <= 3)]_vars

\* C13 (reconcile prunes): after a reconciliation no handle is left for a
\* cell outside the visible set, whatever handles there were before.
C13_NothingOutsideVisibleSet ==
  [][Reconcile
       => \A k \in DOMAIN cellLayers' : InVisibleSet(k, mapCenter')]_vars

\* The map has been dragged far away and every handle of the start of the
\* session has been pruned.
C13_Witness ==
  /\ mapCenter = cellToLatLng(At(PanFar, 0))
  /\ DOMAIN cellLayers = {}

\* The handles of a session at its start, after the first reconciliation.
StartLayers ==
  drawVisibleGrid(<<>>, <<>>, Spawn, cellToLatLng(Spawn)).cellLayers

\* C14 (visual determinism): what is materialized after a reconciliation is
\* a function of the visible set, the store and the player cell alone.  A
\* run that comes back, by a reconciliation, to the visible set, store and
\* player cell of the start of the session shows what the start showed.
C14_VisualDeterminism ==
  [][(/\ Reconcile
      /\ mapCenter' = cellToLatLng(Spawn)
      /\ modifiedCells' = <<>>
      /\ playerCell' = Spawn)
       => Shown(cellLayers') = Shown(StartLayers)]_vars

\* C15 (idempotent reconciliation): a move of the player calls
\* drawVisibleGrid twice in a row, on the same viewport, store and player
\* cell, and the second call leaves the handles of the first: the same keys,
\* the same token and in-range flag on each.
C15_ReconcileIdempotent ==
  [][playerCell' # playerCell
       => \A once \in {drawVisibleGrid(cellLayers, modifiedCells, playerCell',
                                        mapCenter')} :
            /\ cellLayers' = once.cellLayers
            /\ modifiedCells' = once.modifiedCells]_vars

\* The player has stepped north: the move has reconciled twice, redrawn the
\* viewport's cells and kept a handle of the margin ring.
C15_Witness ==
  /\ playerCell = At(1, 0)
  /\ mapCenter = cellToLatLng(playerCell)
  /\ KeyOf(At(-1, 2)) \in DOMAIN cellLayers
  /\ KeyOf(At(0, 0)) \in DOMAIN cellLayers

(* ------------------------------ late game ------------------------------ *)

\* The keys of a store whose cells were first changed from south to north,
\* and from west to east within a row.
southFirst(store) ==
  LET keys == DOMAIN store
      n == Cardinality(keys)
  IN  CHOOSE f \in [1..n -> keys] :
        \A a, b \in 1..n :
          a < b => \/ f[a][1] < f[b][1]
                   \/ (f[a][1] = f[b][1] /\ f[a][2] < f[b][2])

\* The same keys from north to south.
northFirst(store) ==
  LET keys == southFirst(store)
  IN  [x \in 1..Len(keys) |-> keys[Len(keys) + 1 - x]]

\* A session as start-up leaves it once `player`, `inv` and `store`, its
\* keys in the order `keys`, are in memory: the map moved onto the player
\* cell and drawn from no handles, the inventory panel written, no box
\* shown, the buttons enabled (by the URL, or by Toggle GPS since).
Restored(player, inv, store, keys) ==
  /\ playerCell = player
  /\ inventory = inv
  /\ modifiedCells = store
  /\ modifiedKeys = keys
  /\ mapCenter = cellToLatLng(player)
  /\ cellLayers =
       drawVisibleGrid(<<>>, store, player, cellToLatLng(player)).cellLayers
  /\ flashTimers = <<>>
  /\ inventoryDisplay = inv
  /\ notifications = <<>>
  /\ touched = DOMAIN store
  /\ genesis = [k \in WorldKeys |-> initialTokenForCell(k[1], k[2])]
  /\ currentMovementMode = "buttons"
  /\ geolocationStatus = "disabled"
  /\ watchId = NULL
  /\ keyHandler = TRUE

\* The session restored from a save taken in a play that changed the cells
\* of `store` from south to north.
Session(player, inv, store) ==
  /\ Restored(player, inv, store, southFirst(store))
  /\ movementParam = ""

\* The cells the user clicks late in a game.
LateCells == {At(0, 0), At(0, 1), At(3, 3), At(4, 0)}

\* The store of a game one craft short of the target: a token of half the
\* target's value placed on each of the cells the user clicks.
LateStore ==
  [k \in {cellKey(c.i, c.j) : c \in LateCells} |->
     [token |-> TARGET_VALUE \div 2]]

\* The session restored from the save of that game.
InitLate ==
  /\ Session(Spawn, NULL, LateStore)
  /\ saveTimeout = NoSave
  /\ storage = {}
  /\ call = NoCall

\* The play of the late game: clicks on its cells, moves, map drags and
\* flash timers.
NextLate ==
  \/ \E cell \in LateCells : Click(cell) /\ UNCHANGED call
  \/ \E m \in Movements : ButtonMove(m[1], m[2]) /\ UNCHANGED call
  \/ \E center \in PanCenters : MapMoveEnd(center) /\ UNCHANGED call
  \/ FlashTimer /\ UNCHANGED call

SpecLate == InitLate /\ [][NextLate]_vars

\* The victory boxes shown so far, and the tokens at or over the target that
\* lie on a cell or in the inventory (each one the result of a craft, for
\* the late game starts with none).
Victories ==
  Cardinality({n \in DOMAIN notifications : notifications[n][1] = "Victory"})

TargetReached ==
  \/ inventory >= TARGET_VALUE
  \/ \E k \in DOMAIN modifiedCells : modifiedCells[k].token >= TARGET_VALUE

\* C16 (victory fires once): in a session the victory event fires exactly
\* once, on the first craft whose result is at least TARGET_VALUE; before it
\* no victory box is shown, and the later crafts of the session, at or over
\* the target as well, do not fire it again.
C16_VictoryOnce ==
  Victories = IF TargetReached THEN 1 ELSE 0

\* C17 (victory is not terminal): once the victory event has fired, a click
\* that the interaction table accepts (pickup, place, craft) on a cell with
\* a handle can still be made and takes the effect the table prescribes, no
\* click has another effect, a step that moves the player still puts it one cell north,
\* south, east or west with the map centred on it, and a step that moves
\* the map or the player still reconciles: it leaves the store alone and no
\* handle outside the visible set.
C17_VictoryNotTerminal ==
  /\ [](Victories >= 1 =>
          \A c \in LateCells :
            (/\ KeyOf(c) \in DOMAIN cellLayers
             /\ TableRow(c) \in {"pickup", "place", "craft"})
              => ENABLED (Click(c) /\ TableOutcome(c)))
  /\ [][Victories >= 1 =>
          /\ \A c \in LateCells : Click(c) => TableOutcome(c)
          /\ playerCell' # playerCell
               => /\ \E m \in Movements :
                       playerCell' = [i |-> playerCell.i + m[1],
                                      j |-> playerCell.j + m[2]]
                  /\ mapCenter' = cellToLatLng(playerCell')
          /\ (mapCenter' # mapCenter \/ playerCell' # playerCell)
               => /\ modifiedCells' = modifiedCells
                  /\ \A k \in DOMAIN cellLayers' :
                       InVisibleSet(k, mapCenter')]_vars

\* Victory has fired; a token has been picked up after it and is held, both
\* a place and a craft of it are on offer, and the player can step north and
\* the map can be dragged away.
C17_Witness ==
  /\ Victories >= 1
  /\ inventory # NULL
  /\ \E c \in LateCells : TableRow(c) = "place" /\ ENABLED Click(c)
  /\ \E c \in LateCells : TableRow(c) = "craft" /\ ENABLED Click(c)
  /\ ENABLED ButtonMove(1, 0)
  /\ ENABLED MapMoveEnd(cellToLatLng(At(PanFar, 0)))

(* ------------- the click handler, statement by statement --------------- *)

\* One statement of the handler: what it does, the cell and the token it
\* does it with.
Stmt(op, cell, token) == [op |-> op, cell |-> cell, token |-> token]

\* A change that schedules the save before it records the memento.
applyCellChangeBody_SavesFirst(cell, token) ==
  <<Stmt("debouncedSave", cell, token),
    Stmt("modifiedCells.set", cell, token),
    Stmt("updateInventoryUI", cell, token),
    Stmt("drawOrUpdateCell", cell, token)>>

\* The statements of applyCellChange, in the order of the code.
applyCellChangeBody(cell, token) ==
  <<Stmt("modifiedCells.set", cell, token),
    Stmt("updateInventoryUI", cell, token),
    Stmt("drawOrUpdateCell", cell, token),
    Stmt("debouncedSave", cell, token)>>

\* The statements onCellClick runs, in the order of the code, on the branch
\* the state at its entry selects.
onCellClickBody(i, j) ==
  LET cell == [i |-> i, j |-> j]
      cellToken == getCellToken(modifiedCells, i, j)
  IN  IF ~isInRange(playerCell, i, j)
      THEN <<Stmt("flashCell", cell, NULL)>>
      ELSE IF inventory = NULL /\ cellToken # NULL
      THEN <<Stmt("inventory =", cell, cellToken)>>
             \o applyCellChangeBody(cell, NULL)
      ELSE IF inventory # NULL /\ cellToken = NULL
      THEN <<Stmt("inventory =", cell, NULL)>>
             \o applyCellChangeBody(cell, inventory)
      ELSE IF inventory # NULL /\ cellToken # NULL /\ inventory = cellToken
      THEN LET newValue == inventory * 2
           IN  <<Stmt("inventory =", cell, NULL)>>
                 \o applyCellChangeBody(cell, newValue)
                 \o <<IF newValue >= TARGET_VALUE
                      THEN Stmt("showVictory", cell, newValue)
                      ELSE Stmt("showNotification", cell, newValue)>>
      ELSE <<Stmt("flashCell", cell, NULL)>>

\* The effect of one statement.
Execute(stmt) ==
  LET key == cellKey(stmt.cell.i, stmt.cell.j)
  IN  CASE stmt.op = "inventory =" ->
             /\ inventory' = stmt.token
             /\ UNCHANGED <<modifiedCells, modifiedKeys, cellLayers,
                            flashTimers, saveTimeout, inventoryDisplay,
                            notifications>>
        [] stmt.op = "modifiedCells.set" ->
             /\ modifiedCells' =
                  [k \in DOMAIN modifiedCells \cup {key} |->
                     IF k = key THEN [token |-> stmt.token] ELSE modifiedCells[k]]
             /\ modifiedKeys' = keysAfterSet(modifiedKeys, modifiedCells, key)
             /\ UNCHANGED <<inventory, cellLayers, flashTimers, saveTimeout,
                            inventoryDisplay, notifications>>
        [] stmt.op = "updateInventoryUI" ->
             /\ UNCHANGED <<inventory, modifiedCells, modifiedKeys, cellLayers,
                            flashTimers, saveTimeout, notifications>>
             /\ updateInventoryUI
        [] stmt.op = "drawOrUpdateCell" ->
             /\ cellLayers' = drawOrUpdateCell(cellLayers, modifiedCells,
                                               playerCell, stmt.cell)
             /\ UNCHANGED <<inventory, modifiedCells, modifiedKeys,
                            flashTimers, saveTimeout, inventoryDisplay,
                            notifications>>
        [] stmt.op = "debouncedSave" ->
             /\ debouncedSave
             /\ UNCHANGED <<inventory, modifiedCells, modifiedKeys, cellLayers,
                            flashTimers, inventoryDisplay, notifications>>
        [] stmt.op = "showVictory" ->
             /\ showVictory
             /\ UNCHANGED <<inventory, modifiedCells, modifiedKeys, cellLayers,
                            flashTimers, saveTimeout, inventoryDisplay>>
        [] stmt.op = "showNotification" ->
             /\ showNotification(<<"Crafted", stmt.token>>)
             /\ UNCHANGED <<inventory, modifiedCells, modifiedKeys, cellLayers,
                            flashTimers, saveTimeout, inventoryDisplay>>
        [] stmt.op = "flashCell" ->
             /\ flashCell(stmt.cell.i, stmt.cell.j)
             /\ UNCHANGED <<inventory, modifiedCells, modifiedKeys,
                            saveTimeout, inventoryDisplay, notifications>>

\* A click on the handle of `cell` enters the handler: the call records the
\* table row, the token held and the token on the cell at entry, and the
\* statements still to run.
ClickEnter(cell) ==
  LET body == onCellClickBody(cell.i, cell.j)
  IN  /\ call.fn = "none"
      /\ cellKey(cell.i, cell.j) \in DOMAIN cellLayers
      /\ body[1].op = "flashCell" => Len(flashTimers) < MaxTimers
      /\ call' = [fn |-> "onCellClick",
                  arg |-> [cell |-> cell, row |-> TableRow(cell),
                           inventory |-> inventory,
                           cellToken |-> EffectiveToken(modifiedCells, cell)],
                  ret |-> body]
      /\ touched' = IF TableRow(cell) \in {"pickup", "place", "craft"}
                    THEN touched \cup {cellKey(cell.i, cell.j)}
                    ELSE touched
      /\ UNCHANGED <<playerCell, inventory, modifiedCells, modifiedKeys,
                     cellLayers, mapCenter, flashTimers, saveTimeout, storage,
                     inventoryDisplay, notifications, genesis,
                     currentMovementMode, geolocationStatus, watchId,
                     keyHandler, movementParam>>

\* The handler runs its next statement, and returns after the last.
ClickStatement ==
  /\ call.fn = "onCellClick"
  /\ Execute(Head(call.ret))
  /\ call' = IF Tail(call.ret) = <<>>
             THEN NoCall
             ELSE [call EXCEPT !.ret = Tail(call.ret)]
  /\ UNCHANGED <<playerCell, mapCenter, storage, touched, genesis,
                 currentMovementMode, geolocationStatus, watchId, keyHandler,
                 movementParam>>

InitHandler ==
  /\ \/ FreshSession
     \/ /\ Session(Spawn, NULL, LateStore)
        /\ saveTimeout = NoSave
        /\ storage = {}
  /\ call = NoCall

\* No event is handled while the click handler runs.
NextHandler ==
  \/ \E cell \in LateCells : ClickEnter(cell)
  \/ ClickStatement
  \/ \E m \in Movements :
       call.fn = "none" /\ ButtonMove(m[1], m[2]) /\ UNCHANGED call
  \/ call.fn = "none" /\ FlashTimer /\ UNCHANGED call

SpecHandler == InitHandler /\ [][NextHandler]_vars

\* The inventory and the token on the clicked cell after an accepted click,
\* from the row of the table and the values at the handler's entry.
PostInventory(entry) ==
  IF entry.row = "pickup" THEN entry.cellToken ELSE NULL

PostToken(entry) ==
  CASE entry.row = "pickup" -> NULL
    [] entry.row = "place" -> entry.inventory
    [] entry.row = "craft" -> 2 * entry.inventory

\* C18 (atomic transitions): in every accepted pickup, place or craft, when
\* the handler issues debouncedSave and when it shows the victory or the
\* crafted box, the inventory and the store both hold their values of after
\* the transition already.
C18_AtomicTransitions ==
  [][(/\ call.fn = "onCellClick"
      /\ call.arg.row \in {"pickup", "place", "craft"}
      /\ \/ Head(call.ret).op \in {"debouncedSave", "showVictory",
                                   "showNotification"}
         \/ saveTimeout' # saveTimeout
         \/ notifications' # notifications)
       => /\ inventory = PostInventory(call.arg)
          /\ EffectiveToken(modifiedCells, call.arg.cell) = PostToken(call.arg)]_vars

\* A craft that reaches the target is in flight: the save has been
\* scheduled, the victory box is the statement to run next, the inventory is
\* empty and the crafted token lies on the cell.
C18_Witness ==
  /\ call.fn = "onCellClick"
  /\ call.arg.row = "craft"
  /\ Head(call.ret).op = "showVictory"
  /\ saveTimeout.handle
  /\ inventory = NULL
  /\ EffectiveToken(modifiedCells, call.arg.cell) >= TARGET_VALUE

(* ----------------------------- persistence ----------------------------- *)

\* The tokens of the sessions that are saved, and the stores: any memento,
\* of a token or of none, on any of the cells the user clicks.
SavedTokens == {NULL, 2, 4}

SavedStores ==
  UNION {[keys -> {[token |-> t] : t \in SavedTokens}] :
           keys \in SUBSET {cellKey(c.i, c.j) : c \in ClickCells}}

\* A session in play, with a change waiting to be saved and nothing saved
\* yet, on a page opened at either URL.
InitPersistence ==
  /\ \E player \in PlayCells, inv \in SavedTokens, store \in SavedStores :
       \E keys \in {southFirst(store), northFirst(store)} :
         Restored(player, inv, store, keys)
  /\ movementParam \in MovementParams
  /\ saveTimeout = SaveScheduled
  /\ storage = {}
  /\ call = NoCall

\* A record as saveGameState writes them.
WellFormed(state) ==
  /\ state.json = "object"
  /\ state.playerPosition.json = "object"
  /\ state.playerPosition.lat.json = "number"
  /\ state.playerPosition.lng.json = "number"
  /\ state.modifiedCells.json = "array"
  /\ \A n \in DOMAIN state.modifiedCells.items :
       state.modifiedCells.items[n].json = "array"

\* What the text under SAVE_KEY may have become when something else than
\* saveGameState wrote over a saved record: no JSON at all, the JSON null,
\* a record without its position, with a latitude or a longitude that is a
\* string, a record whose cells are no array, a record one of whose entries
\* is null, or is the string "ab".
Damaged(state) ==
  IF ~WellFormed(state) THEN {}
  ELSE
    LET items == state.modifiedCells.items
    IN  {[json |-> "text"],
         [json |-> "null"],
         [state EXCEPT !.playerPosition = [json |-> "null"]],
         [state EXCEPT !.playerPosition.lat = [json |-> "string"]],
         [state EXCEPT !.playerPosition.lng = [json |-> "string"]],
         [state EXCEPT !.modifiedCells = [json |-> "null"]]}
        \cup {[state EXCEPT !.modifiedCells.items =
                 SubSeq(items, 1, n - 1) \o <<entry>>
                   \o SubSeq(items, n, Len(items))] :
                n \in 1..(Len(items) + 1),
                entry \in {[json |-> "null"],
                           [json |-> "string", value |-> <<"a", "b">>]}}

Corrupt(record) ==
  /\ storage # {}
  /\ storage' = {record}
  /\ UNCHANGED <<playerCell, inventory, modifiedCells, modifiedKeys,
                 cellLayers, mapCenter, flashTimers, saveTimeout,
                 inventoryDisplay, notifications, touched, genesis, call,
                 currentMovementMode, geolocationStatus, watchId, keyHandler,
                 movementParam>>

\* The page is loaded anew, at the same URL, in a browser that has
\* navigator.geolocation (supported) or lacks it: the module's variables
\* take their initial values (the player on the spawn cell, nothing held,
\* an empty store, no handle, no box), loadGameState runs, the controller
\* the URL's movement parameter names is enabled (the geolocation
\* controller starts a watch, or reports that there is none to start), the
\* map is moved onto the player cell and drawn, and the inventory panel is
\* written.  The call records what loadGameState returned.
StartUp ==
  \E load \in {loadGameState(storage, Spawn, NULL, <<>>, <<>>)} :
    /\ playerCell' = load.playerCell
    /\ inventory' = load.inventory
    /\ mapCenter' = cellToLatLng(load.playerCell)
    /\ \E moveend \in {drawVisibleGrid(<<>>, load.modifiedCells,
                                        load.playerCell, mapCenter')} :
         \E grid \in {drawVisibleGrid(moveend.cellLayers, moveend.modifiedCells,
                                      load.playerCell, mapCenter')} :
           /\ cellLayers' = grid.cellLayers
           /\ modifiedCells' = grid.modifiedCells
           /\ modifiedKeys' = keysLeft(load.modifiedKeys, grid.modifiedCells)
    /\ updateInventoryUI
    /\ flashTimers' = <<>>
    /\ saveTimeout' = NoSave
    /\ touched' = DOMAIN modifiedCells'
    /\ call' = [fn |-> "loadGameState", arg |-> <<>>, ret |-> <<load.ret>>]
    /\ IF movementParam = "geolocation"
       THEN /\ currentMovementMode' = "geolocation"
            /\ keyHandler' = FALSE
            /\ \E supported \in BOOLEAN :
                 IF supported
                 THEN /\ watchId' = 1
                      /\ geolocationStatus' = "disabled"
                      /\ notifications' = <<>>
                 ELSE /\ watchId' = NULL
                      /\ geolocationStatus' = "error"
                      /\ notifications' =
                           <<<<"Geolocation not supported by browser">>>>
       ELSE /\ currentMovementMode' = "buttons"
            /\ keyHandler' = TRUE
            /\ watchId' = NULL
            /\ geolocationStatus' = "disabled"
            /\ notifications' = <<>>
    /\ UNCHANGED <<storage, genesis, movementParam>>

NextPersistence ==
  \/ SaveTimer /\ UNCHANGED call
  \/ \E state \in storage : \E record \in Damaged(state) : Corrupt(record)
  \/ StartUp

SpecPersistence == InitPersistence /\ [][NextPersistence]_vars

\* C19 (round-trip persistence): when the page is loaded anew on what
\* saveGameState wrote of the state in memory, loadGameState succeeds and the
\* new session has the same player cell, the same inventory, and the same
\* effective token on every cell the store held a memento of, those with a
\* memento of no token included.
C19_RoundTrip ==
  [][(storage = {GameState} /\ StartUp)
       => /\ call'.ret = <<TRUE>>
          /\ playerCell' = playerCell
          /\ inventory' = inventory
          /\ \A k \in DOMAIN modifiedCells :
               EffectiveToken(modifiedCells', [i |-> k[1], j |-> k[2]])
                 = EffectiveToken(modifiedCells, [i |-> k[1], j |-> k[2]])]_vars

\* A session has been restored from its own save: the player off the spawn
\* cell, a token held, a cell the generator puts a token on emptied, and a
\* token placed on another cell.
C19_Witness ==
  /\ call.fn = "loadGameState"
  /\ call.ret = <<TRUE>>
  /\ storage = {GameState}
  /\ playerCell # Spawn
  /\ inventory # NULL
  /\ \E k \in DOMAIN modifiedCells :
       modifiedCells[k].token = NULL /\ genesis[k] # NULL
  /\ \E k \in DOMAIN modifiedCells : modifiedCells[k].token # NULL

\* C20 (a malformed record is discarded wholesale): whenever loadGameState
\* has returned false, for a record that fails the top-level checks as for
\* one that passes them and has a malformed entry, the session is the fresh
\* one: the player on the spawn cell, nothing held, an empty store.
C20_MalformedDiscarded ==
  (call.fn = "loadGameState" /\ call.ret = <<FALSE>>)
    => /\ playerCell = Spawn
       /\ inventory = NULL
       /\ modifiedCells = <<>>

\* The records the load validation refuses: none, a text that is no JSON
\* object, a record with no position, with a latitude or a longitude that is
\* no number, or with cells that are no array.
Refused(saved) ==
  \/ saved = {}
  \/ \E state \in saved :
       \/ state.json # "object"
       \/ /\ state.json = "object"
          /\ \/ state.playerPosition.json # "object"
             \/ state.modifiedCells.json # "array"
             \/ /\ state.playerPosition.json = "object"
                /\ \/ state.playerPosition.lat.json # "number"
                   \/ state.playerPosition.lng.json # "number"

\* C21 (load validation): on an absent record, an unparseable one, a record
\* with no playerPosition, with a playerPosition.lat or .lng that is no
\* number, or with a modifiedCells that is no array, loadGameState returns
\* false and leaves the player cell, the inventory and the store as they
\* were when it was called (at start-up: the spawn cell, nothing held, an
\* empty store).
C21_LoadValidation ==
  [][(Refused(storage) /\ StartUp)
       => /\ call'.ret = <<FALSE>>
          /\ playerCell' = Spawn
          /\ inventory' = NULL
          /\ modifiedCells' = <<>>]_vars

\* loadGameState has returned false on a record saved off the spawn cell
\* with a token held and a cell modified, whose position is sound and whose
\* cells are no array.
C21_Witness ==
  /\ call.fn = "loadGameState"
  /\ call.ret = <<FALSE>>
  /\ \E state \in storage :
       /\ state.json = "object"
       /\ state.playerPosition.json = "object"
       /\ state.playerPosition.lat.json = "number"
       /\ state.playerPosition.lng.json = "number"
       /\ latLngToCell(state.playerPosition.lat.value,
                       state.playerPosition.lng.value) # Spawn
       /\ state.inventory # NULL
       /\ state.modifiedCells.json # "array"

(* ------------------------------- saving -------------------------------- *)

\* The cells the user clicks while the saves are watched: the spawn cell,
\* which the generator puts a token on, and the empty cell east of it.
SaveCells == {At(0, 0), At(0, 1)}

\* The boxes that report a failed save.
SaveFailures ==
  Cardinality({n \in DOMAIN notifications :
                 notifications[n][1] = "Storage quota exceeded - save failed"})

\* A failed write whose error leaves the timer callback: saveTimeout is not
\* set to null.
SaveTimerFails_Propagates(quota) ==
  /\ saveTimeout.timers > 0
  /\ quota => SaveFailures < MaxSaveFailures
  /\ IF quota
     THEN showNotification(<<"Storage quota exceeded - save failed">>)
     ELSE UNCHANGED notifications
  /\ saveTimeout' = [saveTimeout EXCEPT !.timers = @ - 1]
  /\ call' = [fn |-> "saveGameState", arg |-> <<quota>>, ret |-> <<FALSE>>]
  /\ UNCHANGED <<playerCell, inventory, modifiedCells, modifiedKeys,
                 cellLayers, mapCenter, flashTimers, storage, inventoryDisplay,
                 touched, genesis, currentMovementMode, geolocationStatus,
                 watchId, keyHandler, movementParam>>

\* A debounce timer fires and localStorage.setItem throws, a
\* QuotaExceededError (quota) or another error: the catch of saveGameState
\* shows a box for the first and logs the second, nothing is written, and
\* the callback goes on to set saveTimeout to null.  The call records the
\* failure.
SaveTimerFails(quota) ==
  /\ saveTimeout.timers > 0
  /\ quota => SaveFailures < MaxSaveFailures
  /\ IF quota
     THEN showNotification(<<"Storage quota exceeded - save failed">>)
     ELSE UNCHANGED notifications
  /\ saveTimeout' = [handle |-> FALSE, timers |-> saveTimeout.timers - 1,
                      id |-> 0]
  /\ call' = [fn |-> "saveGameState", arg |-> <<quota>>, ret |-> <<FALSE>>]
  /\ UNCHANGED <<playerCell, inventory, modifiedCells, modifiedKeys,
                 cellLayers, mapCenter, flashTimers, storage, inventoryDisplay,
                 touched, genesis, currentMovementMode, geolocationStatus,
                 watchId, keyHandler, movementParam>>

\* The New Game button, confirmed: clearGameState removes the record and
\* location.reload() asks for the page anew.  The page in place lives on
\* until the new one is there.
NewGame ==
  /\ call.fn # "location.reload"
  /\ storage' = {}
  /\ call' = [fn |-> "location.reload", arg |-> <<>>, ret |-> <<>>]
  /\ UNCHANGED <<playerCell, inventory, modifiedCells, modifiedKeys,
                 cellLayers, mapCenter, flashTimers, saveTimeout,
                 inventoryDisplay, notifications, touched, genesis,
                 currentMovementMode, geolocationStatus, watchId, keyHandler,
                 movementParam>>

\* A session with its saves: clicks, moves and flash timers, the debounce
\* timer with a write that succeeds or fails, the page closed and opened
\* again at any moment, and New Game.  Between New Game and the new page
\* nothing is left to happen in the old page but its pending save.
PageInPlace == call.fn # "location.reload"

NextSaving ==
  \/ \E cell \in SaveCells : PageInPlace /\ Click(cell) /\ UNCHANGED call
  \/ \E m \in Movements :
       PageInPlace /\ ButtonMove(m[1], m[2]) /\ UNCHANGED call
  \/ PageInPlace /\ FlashTimer /\ UNCHANGED call
  \/ \E quota \in BOOLEAN : PageInPlace /\ SaveTimerFails(quota)
  \/ SaveTimer /\ UNCHANGED call
  \/ NewGame
  \/ StartUp

SpecSaving == Init /\ [][NextSaving]_vars

\* C22 (a failed write): a write that fails, for the quota or for another
\* error, changes neither the player cell, nor the inventory, nor the store,
\* nor the record saved before; the timer callback completes (saveTimeout is
\* null after it); and in the session after the failure every click still
\* takes the effect the interaction table prescribes, every accepted click
\* and every move still schedules a save, and the write of that save stores
\* the state in memory.
C22_SaveFailureHarmless ==
  [][/\ \A quota \in BOOLEAN :
          SaveTimerFails(quota)
            => /\ UNCHANGED <<playerCell, inventory, modifiedCells,
                              modifiedKeys, storage>>
               /\ ~saveTimeout'.handle
     /\ call.fn = "saveGameState"
          => /\ \A c \in SaveCells :
                  Click(c)
                    => /\ TableOutcome(c)
                       /\ TableRow(c) \in {"pickup", "place", "craft"}
                            => saveTimeout'.timers = 1
             /\ playerCell' # playerCell
                  => (call'.fn = "saveGameState" => saveTimeout'.timers = 1)
             /\ SaveTimer => storage' = {GameState}]_vars

\* A write failed for the quota; since then the player has moved, a token
\* has been picked up, and the state in memory has been saved.
C22_Witness ==
  /\ call.fn = "saveGameState"
  /\ SaveFailures = 1
  /\ storage = {GameState}
  /\ playerCell # Spawn
  /\ inventory # NULL

\* C23 (the debounced write): at every moment at most one write is
\* scheduled; a request for a save, made by an accepted click or by a move,
\* leaves exactly one write scheduled, on a timer of its own, whether or
\* not one was pending; and when the timer expires the state in memory,
\* that of the last request, is written once and no write remains scheduled.
C23_DebouncedWrite ==
  /\ [](saveTimeout.timers <= 1)
  /\ [][/\ \A c \in SaveCells :
             (Click(c) /\ TableRow(c) \in {"pickup", "place", "craft"})
               => /\ saveTimeout'.handle
                  /\ saveTimeout'.timers = 1
                  /\ saveTimeout'.id # saveTimeout.id
        /\ \A m \in Movements :
             (PageInPlace /\ ButtonMove(m[1], m[2]))
               => /\ saveTimeout'.handle
                  /\ saveTimeout'.timers = 1
                  /\ saveTimeout'.id # saveTimeout.id
        /\ SaveTimer => storage' = {GameState} /\ saveTimeout' = NoSave]_vars

\* Two requests and no expiry since the page was opened: the player has
\* moved and picked a token up, nothing has been written, one write is
\* scheduled, on the timer that replaced the first.
C23_Witness ==
  /\ call = NoCall
  /\ storage = {}
  /\ playerCell # Spawn
  /\ inventory # NULL
  /\ saveTimeout = [SaveScheduled EXCEPT !.id = setTimeout(SaveScheduled.id)]

\* C24 (persistence across reloads): whenever the page is closed and opened
\* again, after any sequence of clicks and moves, the session that starts
\* has the player cell, the inventory and the store that were in memory at
\* the closing.
C24_ReloadRestores ==
  [][(PageInPlace /\ StartUp)
       => /\ playerCell' = playerCell
          /\ inventory' = inventory
          /\ modifiedCells' = modifiedCells]_vars

\* C25 (reset): after New Game is confirmed, whatever the state before, the
\* session that starts finds no saved record and has an empty store, an
\* empty inventory and the player on the spawn cell.
C25_NewGameResets ==
  [][(~PageInPlace /\ StartUp)
       => /\ storage' = {}
          /\ modifiedCells' = <<>>
          /\ inventory' = NULL
          /\ playerCell' = Spawn]_vars

(* ------------------------------- import -------------------------------- *)

\* The records a user may put under SAVE_KEY by hand: the player on the
\* spawn cell, nothing held, and up to MaxEntries entries, in any order and
\* with keys repeated, for the two cells of SaveCells.
ImportEntries ==
  {[json |-> "array", key |-> cellKey(c.i, c.j), memento |-> [token |-> t]] :
     c \in SaveCells, t \in {NULL, 2}}

ImportRecords ==
  {[json |-> "object",
    playerPosition |->
      [json |-> "object",
       lat |-> [json |-> "number", value |-> cellToLatLng(Spawn).lat],
       lng |-> [json |-> "number", value |-> cellToLatLng(Spawn).lng]],
    inventory |-> NULL,
    modifiedCells |-> [json |-> "array", items |-> items]] :
     items \in UNION {[1..n -> ImportEntries] : n \in 0..MaxEntries}}

\* The stores in memory when the page is loaded anew: a memento, of a token
\* or of none, on any of the two cells.
ImportStores ==
  UNION {[keys -> {[token |-> t] : t \in {NULL, 4}}] :
           keys \in SUBSET {cellKey(c.i, c.j) : c \in SaveCells}}

InitImport ==
  /\ \E inv \in {NULL, 2}, store \in ImportStores :
       Restored(Spawn, inv, store, southFirst(store))
  /\ movementParam \in MovementParams
  /\ saveTimeout = NoSave
  /\ storage = {}
  /\ call = NoCall

\* The user writes a record under SAVE_KEY (once).
Edit(record) ==
  /\ storage = {}
  /\ storage' = {record}
  /\ UNCHANGED <<playerCell, inventory, modifiedCells, modifiedKeys,
                 cellLayers, mapCenter, flashTimers, saveTimeout,
                 inventoryDisplay, notifications, touched, genesis, call,
                 currentMovementMode, geolocationStatus, watchId, keyHandler,
                 movementParam>>

NextImport ==
  \/ \E record \in ImportRecords : Edit(record)
  \/ StartUp

SpecImport == InitImport /\ [][NextImport]_vars

\* C30 (import replaces the store): when the page is loaded anew and
\* loadGameState succeeds, the store holds a memento for the keys of the
\* record's entries and for no other key, whatever the store in memory held
\* before, and the memento of a key is that of the last entry with the key.
C30_ImportReplaces ==
  [][(StartUp /\ call'.ret = <<TRUE>>)
       => \A state \in storage :
            LET items == state.modifiedCells.items
            IN  /\ DOMAIN modifiedCells' = {items[n].key : n \in DOMAIN items}
                /\ \A n \in DOMAIN items :
                     (\A m \in DOMAIN items : items[m].key = items[n].key => m <= n)
                       => modifiedCells'[items[n].key] = items[n].memento]_vars

\* A record of three entries has been loaded, two of them for the same key
\* with different mementos: the store holds the later one.
C30_Witness ==
  /\ call.fn = "loadGameState"
  /\ call.ret = <<TRUE>>
  /\ \E state \in storage :
       LET items == state.modifiedCells.items
       IN  /\ Len(items) = 3
           /\ items[1].key = items[3].key
           /\ items[1].memento # items[3].memento
           /\ items[2].key # items[1].key
           /\ modifiedCells[items[1].key] = items[3].memento

(* ------------------------- movement controllers ------------------------ *)

\* The positions the geolocation watch reports: the south-west corner of the
\* spawn cell; the middle of the south edge of the cell four cells north of
\* it, out of range of the spawn cell; the west edge of the cell south of the
\* spawn cell, half way up it; and the middle of the south edge of the cell
\* three cells south of the spawn cell, whose quotient by TILE_DEGREES
\* rounds below the cell's index.
GeoFixes ==
  {[lat |-> Spawn.i * TILE_DEGREES, lng |-> Spawn.j * TILE_DEGREES],
   [lat |-> (Spawn.i + 4) * TILE_DEGREES,
    lng |-> Spawn.j * TILE_DEGREES + TILE_DEGREES \div 2],
   [lat |-> Spawn.i * TILE_DEGREES - 1, lng |-> Spawn.j * TILE_DEGREES],
   [lat |-> (Spawn.i - 3) * TILE_DEGREES,
    lng |-> Spawn.j * TILE_DEGREES + TILE_DEGREES \div 2]}

\* The positions the watch reports inside the spawn cell.
SpawnFixes == {fix \in GeoFixes : latLngToCell(fix.lat, fix.lng) = Spawn}

\* GeolocationPositionError.code, and 0 for a code the switch does not name.
PERMISSION_DENIED == 1
POSITION_UNAVAILABLE == 2
TIMEOUT == 3
ErrorCodes == {0, PERMISSION_DENIED, POSITION_UNAVAILABLE, TIMEOUT}

GeoMessages ==
  {<<"Geolocation not supported by browser">>, <<"Geolocation error">>,
   <<"Location permission denied">>, <<"Location unavailable">>,
   <<"Location request timeout">>}

GeoFailures ==
  Cardinality({n \in DOMAIN notifications : notifications[n] \in GeoMessages})

\* The success callback of watchPosition.  Both controllers were given
\* handleMovement by onMove, so moveCallback is never null.
GeolocationPosition(latitude, longitude) ==
  /\ watchId # NULL
  /\ geolocationStatus' = "active"
  /\ movePlayerToLatLng(latitude, longitude)
  /\ UNCHANGED <<inventory, flashTimers, storage, inventoryDisplay,
                 notifications, touched, genesis, currentMovementMode, watchId,
                 keyHandler, movementParam>>

\* An error callback that asks for a save.
GeolocationError_Saves(code) ==
  /\ watchId # NULL
  /\ GeoFailures < MaxGeoFailures
  /\ geolocationStatus' = "error"
  /\ showNotification(<<"Geolocation error">>)
  /\ debouncedSave
  /\ UNCHANGED <<playerCell, inventory, modifiedCells, modifiedKeys,
                 cellLayers, mapCenter, flashTimers, storage, inventoryDisplay,
                 touched, genesis, currentMovementMode, watchId, keyHandler,
                 movementParam>>

\* The error callback of watchPosition.
GeolocationError(code) ==
  LET message == CASE code = PERMISSION_DENIED -> <<"Location permission denied">>
                   [] code = POSITION_UNAVAILABLE -> <<"Location unavailable">>
                   [] code = TIMEOUT -> <<"Location request timeout">>
                   [] OTHER -> <<"Geolocation error">>
  IN  /\ watchId # NULL
      /\ GeoFailures < MaxGeoFailures
      /\ geolocationStatus' = "error"
      /\ showNotification(message)
      /\ UNCHANGED <<playerCell, inventory, modifiedCells, modifiedKeys,
                     cellLayers, mapCenter, flashTimers, saveTimeout, storage,
                     inventoryDisplay, touched, genesis, currentMovementMode,
                     watchId, keyHandler, movementParam>>

\* switchMovementMode(mode) in a browser that has navigator.geolocation
\* (supported) or lacks it: the active controller is disabled and the other
\* one enabled.  Disabling the button controller removes its buttons and
\* its key listener, enabling it creates them.  Disabling the geolocation
\* controller clears its watch, if it has one; enabling it starts a watch,
\* or reports that there is none to start.
switchMovementMode(mode, supported) ==
  /\ mode # currentMovementMode
  /\ currentMovementMode' = mode
  /\ keyHandler' = (mode = "buttons")
  /\ IF mode = "geolocation"
     THEN IF supported
          THEN /\ watchId' = 1
               /\ UNCHANGED <<geolocationStatus, notifications>>
          ELSE /\ GeoFailures < MaxGeoFailures
               /\ showNotification(<<"Geolocation not supported by browser">>)
               /\ geolocationStatus' = "error"
               /\ UNCHANGED watchId
     ELSE /\ watchId' = NULL
          /\ geolocationStatus' = "disabled"
          /\ UNCHANGED notifications
  /\ UNCHANGED <<playerCell, inventory, modifiedCells, modifiedKeys,
                 cellLayers, mapCenter, flashTimers, saveTimeout, storage,
                 inventoryDisplay, touched, genesis, movementParam>>

\* The call that delivers a position to movePlayerToLatLng.
Delivered(lat, lng) ==
  [fn |-> "movePlayerToLatLng", arg |-> <<lat, lng>>, ret |-> <<>>]

\* The moves of whichever controller is enabled.  The call records the
\* position delivered.
Moves ==
  \/ \E m \in Movements :
       /\ ButtonMove(m[1], m[2])
       /\ \E p \in {cellToLatLng([i |-> playerCell.i + m[1],
                                 j |-> playerCell.j + m[2]])} :
            call' = Delivered(p.lat, p.lng)
  \/ \E fix \in GeoFixes :
       /\ GeolocationPosition(fix.lat, fix.lng)
       /\ call' = Delivered(fix.lat, fix.lng)

\* A session with both controllers in a browser that has geolocation:
\* clicks on the spawn cell, the map dragged back onto the spawn cell, the
\* timers, the Toggle GPS button and the moves.
NextMovement ==
  \/ Click(Spawn) /\ UNCHANGED call
  \/ MapMoveEnd(cellToLatLng(Spawn)) /\ UNCHANGED call
  \/ FlashTimer /\ UNCHANGED call
  \/ SaveTimer /\ UNCHANGED call
  \/ Moves
  \/ \E mode \in {"buttons", "geolocation"} :
       switchMovementMode(mode, TRUE) /\ UNCHANGED call

SpecMovement == Init /\ [][NextMovement]_vars

\* A session in which geolocation fails: the watch reports errors, or the
\* browser has no geolocation at all.  Between the failures the buttons move
\* the player and the watch reports positions inside the spawn cell.
NextGeolocation ==
  \/ Click(Spawn) /\ UNCHANGED call
  \/ SaveTimer /\ UNCHANGED call
  \/ \E m \in Movements : ButtonMove(m[1], m[2]) /\ UNCHANGED call
  \/ \E fix \in SpawnFixes :
       GeolocationPosition(fix.lat, fix.lng) /\ UNCHANGED call
  \/ \E code \in ErrorCodes : GeolocationError(code) /\ UNCHANGED call
  \/ \E mode \in {"buttons", "geolocation"} : \E supported \in BOOLEAN :
       switchMovementMode(mode, supported) /\ UNCHANGED call

\* The page is opened at either URL, in a browser with or without
\* geolocation.
InitGeolocation ==
  /\ \E param \in MovementParams, supported \in BOOLEAN :
       Opened(param, supported)
  /\ call = NoCall

SpecGeolocation == InitGeolocation /\ [][NextGeolocation]_vars

\* The events of a session that deliver no position.
OtherEvent ==
  \/ Click(Spawn)
  \/ MapMoveEnd(cellToLatLng(Spawn))
  \/ FlashTimer
  \/ SaveTimer
  \/ \E mode \in {"buttons", "geolocation"} : switchMovementMode(mode, TRUE)

\* C26 (the player cell follows the position): the player cell is the spawn
\* cell until a position is delivered and from then on the cell of the last
\* position delivered; a click, accepted or rejected, a reconciliation, a
\* save, a flash timer and a switch of controller leave it as it is.
C26_PlayerCellFollowsPosition ==
  /\ [](IF call.fn = "movePlayerToLatLng"
        THEN playerCell = latLngToCell(call.arg[1], call.arg[2])
        ELSE playerCell = Spawn)
  /\ [][OtherEvent => playerCell' = playerCell]_vars

\* The geolocation watch has delivered the position half way up the cell
\* south of the spawn cell, and the player is on that cell.
C26_Witness ==
  /\ call.fn = "movePlayerToLatLng"
  /\ call.arg = <<Spawn.i * TILE_DEGREES - 1, Spawn.j * TILE_DEGREES>>
  /\ playerCell = At(-1, 0)
  /\ currentMovementMode = "geolocation"

\* A movement-input failure: the watch reports an error, or the geolocation
\* controller is enabled in a browser without geolocation.
GeolocationFailure ==
  \/ \E code \in ErrorCodes : GeolocationError(code)
  \/ switchMovementMode("geolocation", FALSE)

\* C27 as stated (a movement-input failure changes the status indicator
\* only): a failure changes neither the player cell, nor the inventory, nor
\* the store, runs no reconciliation, asks for no save, and changes nothing
\* else on the page than the geolocation status.
C27_FailureChangesStatusOnly ==
  [][GeolocationFailure
       => UNCHANGED <<playerCell, inventory, modifiedCells, modifiedKeys,
                      cellLayers, mapCenter, flashTimers, saveTimeout, storage,
                      inventoryDisplay, notifications>>]_vars

\* C27 amended (a movement-input failure is reported and changes nothing of
\* the game): a failure changes neither the player cell, nor the inventory,
\* nor the store, runs no reconciliation and asks for no save; the
\* geolocation status becomes "error" and one notification box, which names
\* the failure, is shown.
C27_FailureReportedOnly ==
  [][GeolocationFailure
       => /\ UNCHANGED <<playerCell, inventory, modifiedCells, modifiedKeys,
                         cellLayers, mapCenter, flashTimers, saveTimeout,
                         storage, inventoryDisplay>>
          /\ geolocationStatus' = "error"
          /\ \E message \in GeoMessages :
               notifications' = Append(notifications, message)]_vars

\* The watch timed out after the player was moved off the spawn cell with a
\* token held and the state was saved: the status is "error", the box is
\* shown, nothing is scheduled and the record is that of the state in memory.
C27_Witness ==
  /\ geolocationStatus = "error"
  /\ notifications # <<>>
  /\ notifications[Len(notifications)] = <<"Location request timeout">>
  /\ playerCell # Spawn
  /\ inventory # NULL
  /\ saveTimeout = NoSave
  /\ storage = {GameState}

(* ------------------------------ tokens --------------------------------- *)

RECURSIVE PowerOfTwo(_)
\* v is 2, 4, 8, 16, ...
PowerOfTwo(v) ==
  /\ v >= 2
  /\ v % 2 = 0
  /\ v = 2 \/ PowerOfTwo(v \div 2)

\* C28 (tokens are powers of two): in every state reached from a fresh
\* session by clicks, moves and reconciliations, the inventory holds
\* nothing or a power of two not less than 2, and so does every memento.
C28_PowersOfTwo ==
  /\ inventory # NULL => PowerOfTwo(inventory)
  /\ \A k \in DOMAIN modifiedCells :
       modifiedCells[k].token # NULL => PowerOfTwo(modifiedCells[k].token)

\* A token is held while a memento holds a crafted token, greater than the
\* one the generator put on the cell.
C28_Witness ==
  /\ inventory # NULL
  /\ \E k \in DOMAIN modifiedCells :
       /\ genesis[k] # NULL
       /\ modifiedCells[k].token # NULL
       /\ modifiedCells[k].token > genesis[k]

(* ---------------- the coordinate mapping, cell by cell ----------------- *)

\* The cells whose positions are mapped: along each axis and along a
\* diagonal, on both sides of coordinate 0, and along a diagonal through
\* cell (0, 0) and through the spawn cell.
CoordCells ==
  UNION {{[i |-> c, j |-> 0], [i |-> 0, j |-> c], [i |-> c, j |-> -c]} :
           c \in -CoordBound..CoordBound}
    \cup {[i |-> d, j |-> d] : d \in -Window..Window}
    \cup {[i |-> Spawn.i + d, j |-> Spawn.j + d] : d \in -Window..Window}

\* latLngToCell is called on a position of `cell`: its centre, as
\* cellToLatLng computes it, its south-west corner, the first position of
\* the cell on both axes, as getCellBounds computes it, or, in the spawn
\* cell, the classroom.
Locate(cell, position) ==
  /\ call = NoCall
  /\ \E at \in {CASE position = "centre" -> cellToLatLng64(cell)
                  [] position = "corner" -> getCellBounds(cell.i, cell.j).sw
                  [] position = "classroom" -> CLASSROOM_LATLNG} :
       call' = [fn |-> "latLngToCell",
                arg |-> <<position, cell.i, cell.j>>,
                ret |-> <<latLngToCell64(at.lat, at.lng)>>]
  /\ UNCHANGED <<playerCell, inventory, modifiedCells, modifiedKeys,
                 cellLayers, mapCenter, flashTimers, saveTimeout, storage,
                 inventoryDisplay, notifications, touched, genesis,
                 currentMovementMode, geolocationStatus, watchId, keyHandler,
                 movementParam>>

NextCoordinates ==
  \/ \E cell \in CoordCells : \E position \in {"centre", "corner"} :
       Locate(cell, position)
  \/ Locate(Spawn, "classroom")

SpecCoordinates == Init /\ [][NextCoordinates]_vars

\* C29 (coordinate mapping): for every cell index, negative, zero or
\* positive, on both axes, the centre of the cell maps back to the cell, and
\* so does the first position of the cell, its south-west corner; coordinate
\* 0 is the first position of cell 0 and the centre of cell -1 lies in
\* cell -1.
C29_CoordinateMapping ==
  call.fn = "latLngToCell"
    => call.ret = <<[i |-> call.arg[2], j |-> call.arg[3]]>>

\* The game's positions and the doubles agree: on the centre and on the
\* corner of a cell, and on the classroom, latLngToCell on the position
\* counted in half tiles is latLngToCell on the doubles.
HalfTilesAgree ==
  call.fn = "latLngToCell"
    => LET cell == [i |-> call.arg[2], j |-> call.arg[3]]
           cells == CASE call.arg[1] = "centre" ->
                          latLngToCell(cellToLatLng(cell).lat,
                                       cellToLatLng(cell).lng)
                      [] call.arg[1] = "corner" ->
                          latLngToCell(cell.i * TILE_DEGREES,
                                       cell.j * TILE_DEGREES)
                      [] call.arg[1] = "classroom" -> Spawn
       IN  call.ret = <<cells>>

(* ---------------------------- save triggers ---------------------------- *)

\* A session restored from a save, holding the 2 picked up at (3,3), and
\* its debounce timer: every row of the interaction table is met, and the
\* scheduled write fires between the events.
TriggerCells == {At(0, 0), At(4, 0)}

TriggerCenters == {cellToLatLng(At(3, 1))}

InitTriggers ==
  /\ Session(Spawn, 2,
             [k \in {cellKey(Spawn.i + 3, Spawn.j + 3)} |-> [token |-> NULL]])
  /\ saveTimeout = NoSave
  /\ storage = {}
  /\ call = NoCall

NextTriggers ==
  \/ \E cell \in TriggerCells : Click(cell) /\ UNCHANGED call
  \/ \E m \in Movements : ButtonMove(m[1], m[2]) /\ UNCHANGED call
  \/ \E center \in TriggerCenters : MapMoveEnd(center) /\ UNCHANGED call
  \/ FlashTimer /\ UNCHANGED call
  \/ SaveTimer /\ UNCHANGED call

SpecTriggers == InitTriggers /\ [][NextTriggers]_vars

\* C31 (save triggers): an accepted pickup, place or craft and a move of the
\* player each leave exactly one write scheduled, on a new timer held in
\* saveTimeout, whether or not one was pending before; a rejected click (out
\* of range or invalid combination), a drag of the map and a flash timer
\* leave the debounce timer as it was.
C31_SaveTriggers ==
  [][/\ \A c \in TriggerCells :
          Click(c) => IF TableRow(c) \in {"pickup", "place", "craft"}
                      THEN /\ saveTimeout'.handle
                           /\ saveTimeout'.timers = 1
                           /\ saveTimeout'.id # saveTimeout.id
                      ELSE saveTimeout' = saveTimeout
     /\ playerCell' # playerCell
          => /\ saveTimeout'.handle
             /\ saveTimeout'.timers = 1
             /\ saveTimeout'.id # saveTimeout.id
     /\ (playerCell' = playerCell /\ mapCenter' # mapCenter)
          => saveTimeout' = saveTimeout
     /\ (flashTimers # <<>> /\ flashTimers' = Tail(flashTimers))
          => saveTimeout' = saveTimeout]_vars

\* The write a move requested fired while the 2 was held; the craft that
\* followed has scheduled a write of its own.
C31_Witness ==
  /\ \E state \in storage : state.inventory = 2
  /\ inventory = NULL
  /\ notifications = <<<<"Crafted", 4>>>>
  /\ saveTimeout = SaveScheduled

(* --------------------------- victory emission -------------------------- *)

\* A session restored from a save: the 2 of (3,3) held, the 2 of the spawn
\* cell where the generator put it, and a token of half the target's value
\* placed east of the spawn cell and four cells north of it.  Crafts below
\* the target and up to it are both at hand.
EmissionStore ==
  [k \in {cellKey(Spawn.i + 3, Spawn.j + 3), cellKey(Spawn.i, Spawn.j + 1),
          cellKey(Spawn.i + 4, Spawn.j)} |->
     [token |-> IF k = cellKey(Spawn.i + 3, Spawn.j + 3)
                THEN NULL ELSE TARGET_VALUE \div 2]]

EmissionCells == {At(0, 0), At(0, 1), At(4, 0)}

InitEmission ==
  /\ Session(Spawn, 2, EmissionStore)
  /\ saveTimeout = NoSave
  /\ storage = {}
  /\ call = NoCall

NextEmission ==
  \/ \E cell \in EmissionCells : Click(cell) /\ UNCHANGED call
  \/ \E m \in Movements : ButtonMove(m[1], m[2]) /\ UNCHANGED call
  \/ \E center \in TriggerCenters : MapMoveEnd(center) /\ UNCHANGED call
  \/ FlashTimer /\ UNCHANGED call

SpecEmission == InitEmission /\ [][NextEmission]_vars

\* C32 (victory emission): a click that crafts 2v shows the victory box when
\* 2v is at least TARGET_VALUE and the crafted box, with the value 2v, when
\* it is less; a pickup, a place and a rejected click show no box.
C32_VictoryEmission ==
  [][\A c \in EmissionCells :
       Click(c) =>
         IF TableRow(c) = "craft"
         THEN IF 2 * inventory >= TARGET_VALUE
              THEN notifications' =
                     Append(notifications, <<"Victory", TARGET_VALUE>>)
              ELSE notifications' =
                     Append(notifications, <<"Crafted", 2 * inventory>>)
         ELSE notifications' = notifications]_vars

\* Both kinds of craft have been made: a crafted box for the 4 and the
\* victory box for the craft that reached the target exactly.
C32_Witness ==
  /\ \E n \in DOMAIN notifications : notifications[n] = <<"Crafted", 4>>
  /\ \E n \in DOMAIN notifications : notifications[n] = <<"Victory", TARGET_VALUE>>
  /\ \E k \in DOMAIN modifiedCells : modifiedCells[k].token = TARGET_VALUE

(* -------------------------- token conservation ------------------------- *)

\* The value of a token (none counts for nothing), and the value in play:
\* the token held and the effective tokens of the cells of World, which
\* holds every cell that is clicked.
TokenValue(token) == IF token = NULL THEN 0 ELSE token

RECURSIVE SumOver(_, _)
SumOver(cells, store) ==
  IF cells = {} THEN 0
  ELSE LET c == CHOOSE x \in cells : TRUE
       IN  TokenValue(getCellToken(store, c.i, c.j)) + SumOver(cells \ {c}, store)

TotalValue == TokenValue(inventory) + SumOver(World, modifiedCells)

GenesisValue == SumOver(World, <<>>)

\* C33 (token conservation): through the clicks, accepted and rejected, the
\* moves, the drags of the map and the flash timers of a session, the value
\* held plus the effective token values of the cells of World stays what the
\* generator put there.
C33_TokenConservation == TotalValue = GenesisValue

\* Tokens have been crafted and one is held, and the map has been dragged so
\* far off that no handle is left.
C33_Witness ==
  /\ \E n \in DOMAIN notifications : notifications[n][1] = "Crafted"
  /\ inventory # NULL
  /\ \E k \in DOMAIN modifiedCells : modifiedCells[k].token # NULL
  /\ cellLayers = <<>>

(* --------------------------- displayed tokens -------------------------- *)

\* C34 (handles show the effective token): after every click, move, drag of
\* the map and flash timer, the token a materialized handle shows is the
\* effective token of its cell, getCellToken, also while the handle flashes
\* and for a handle kept in the margin ring.
C34_HandlesShowEffectiveToken ==
  \A k \in DOMAIN cellLayers :
    cellLayers[k].token = getCellToken(modifiedCells, k[1], k[2])

\* A handle shows the token crafted on its cell, which the generator did not
\* put there, and another handle shows a cell emptied by a pickup.
C34_Witness ==
  /\ \E k \in DOMAIN cellLayers :
       /\ k \in DOMAIN modifiedCells
       /\ cellLayers[k].token = 4
       /\ genesis[k] = 2
  /\ \E k \in DOMAIN cellLayers :
       /\ k \in DOMAIN modifiedCells
       /\ cellLayers[k].token = NULL
       /\ genesis[k] # NULL

(* ---------------------------- in-range flags --------------------------- *)

\* C35 (in-range flags follow the player): after every event that moves the
\* player, the in-range flag of each materialized handle is isInRange of its
\* cell for the new player cell, also for the handles of the margin ring
\* that were kept from an earlier reconcile.
C35_InRangeFlagsFollowMoves ==
  [][playerCell' # playerCell
       => \A k \in DOMAIN cellLayers' :
            cellLayers'[k].inRange = isInRange(playerCell', k[1], k[2])]_vars

(* ----------------------------- flash timers ---------------------------- *)

\* C36 (a flash timer brings no pruned handle back): when a flash timer
\* fires, every handle materialized after it lies in the visible set of the
\* most recent reconcile, that of the map's centre; a flashed cell that a
\* move or a drag pruned in the meantime gets no handle from the timer.
C36_FlashKeepsPruned ==
  [][(/\ flashTimers # <<>>
      /\ flashTimers' = Tail(flashTimers)
      /\ mapCenter' = mapCenter
      /\ playerCell' = playerCell)
       => \A k \in DOMAIN cellLayers' : InVisibleSet(k, mapCenter)]_vars

(* ------------------------- New Game and the timer ---------------------- *)

\* C37 (no write after the reset): once New Game is confirmed and
\* clearGameState has removed the record, no write that was pending in the
\* page being left puts the old state back: the record is absent for as
\* long as the reload is under way, so that the new session finds none.
C37_NoWriteAfterReset ==
  call.fn = "location.reload" => storage = {}

(* ------------------------- eventual persistence ------------------------ *)

\* A session in which the browser runs every timer that stays scheduled:
\* clicks on the spawn cell, moves of both controllers, among them positions
\* the watch reports inside the cell the player stands on, and the debounce
\* timer, whose write succeeds or fails.  The call records the outcome of
\* the last write.
Written == [fn |-> "saveGameState", arg |-> <<>>, ret |-> <<TRUE>>]

\* The callback of the timer `id` runs.  A request clears the timer it
\* finds, so the callback of a timer is due only for as long as saveTimeout
\* holds that timer.
TimerFires(id) ==
  /\ saveTimeout.id = id
  /\ \/ SaveTimer /\ call' = Written
     \/ \E quota \in BOOLEAN : SaveTimerFails(quota)

NextEventual ==
  \/ Click(Spawn) /\ UNCHANGED call
  \/ \E m \in Movements : ButtonMove(m[1], m[2]) /\ UNCHANGED call
  \/ \E fix \in SpawnFixes :
       GeolocationPosition(fix.lat, fix.lng) /\ UNCHANGED call
  \/ \E mode \in {"buttons", "geolocation"} :
       switchMovementMode(mode, TRUE) /\ UNCHANGED call
  \/ SaveTimer /\ call' = Written
  \/ \E quota \in BOOLEAN : SaveTimerFails(quota)

\* The browser runs the callback of a timer that stays scheduled: each
\* timer is treated fairly by itself, and a timer that a request clears
\* before it is due never runs.
SpecEventual ==
  /\ Init
  /\ [][NextEventual]_vars
  /\ WF_vars(TimerFires(SaveScheduled.id))
  /\ WF_vars(TimerFires(setTimeout(SaveScheduled.id)))

\* A save is requested: debouncedSave puts a new timer in saveTimeout,
\* whether or not the request comes with a change of the state in memory.
SaveRequest ==
  /\ saveTimeout'.handle
  /\ saveTimeout'.id # saveTimeout.id

\* No write is pending, and the record is the state in memory unless the
\* last write failed.
Persisted ==
  /\ saveTimeout = NoSave
  /\ call.ret = <<FALSE>> \/ storage = {GameState}

\* C38 (eventual persistence): unless save requests keep arriving, a write
\* that is scheduled eventually fires; after it no write is pending
\* (saveTimeout is null) and, unless the write failed, the record is the
\* player cell, the inventory and the store in memory.
C38_EventualPersistence ==
  \/ []<><<SaveRequest>>_vars
  \/ saveTimeout.handle ~> Persisted

\* After a pickup and a position reported inside the player's cell the
\* scheduled write has fired and succeeded: nothing is pending and the
\* record is the state in memory.
C38_Witness ==
  /\ call = Written
  /\ saveTimeout = NoSave
  /\ storage = {GameState}
  /\ geolocationStatus = "active"
  /\ playerCell = Spawn
  /\ inventory # NULL

(* --------------------------- movement modes ---------------------------- *)

\* C39 (movement mode switching): after any sequence of toggles exactly one
\* movement controller is enabled, the one currentMovementMode names: the
\* buttons and the key listener exist exactly in button mode, a geolocation
\* watch is registered exactly in geolocation mode, and in button mode the
\* geolocation status is disabled.
C39_OneControllerEnabled ==
  /\ keyHandler <=> currentMovementMode = "buttons"
  /\ watchId # NULL <=> currentMovementMode = "geolocation"
  /\ currentMovementMode = "buttons" => geolocationStatus = "disabled"

====
